---- MODULE Spec2Model ----
(***************************************************************************)
(* A model of the CSVEditor normalisation core (src/core.py) and of the    *)
(* ledger kept by the desktop front end (src/csveditor.py, FastEntry), and *)
(* of the REST backend (src/local-react-sqlite/backend/main.py).           *)
(*                                                                         *)
(* Text is a sequence of one-character strings; "nbsp" stands for the      *)
(* single character U+00A0.  A Decimal is a sign, a coefficient and a      *)
(* scale (the number of fractional digits): neg, coef, scale stand for     *)
(* (-1)^neg * coef / 10^scale.  A call that raises is a result with        *)
(* ok = FALSE and the name of the exception in exc.                        *)
(***************************************************************************)
EXTENDS Integers, Sequences, FiniteSets, TLC

VARIABLES
    fn,     \* pure-function harness: the function of core.py being called
    arg,    \* its argument: [s |-> text, d |-> Decimal]
    ret,    \* its outcome, or NoRet before the call
    pc      \* "call" before the call, "done" after it

coreVars == <<fn, arg, ret, pc>>

VARIABLES
    table,              \* the rows of self.table, top to bottom
    _next_row_id,       \* self._next_row_id
    _undo_stack,        \* self._undo_stack
    _redo_stack,        \* self._redo_stack
    _updating,          \* self._updating
    opening,            \* self.opening.text()
    target_closing,     \* self.target_closing.text()
    date,               \* self.date.text()
    dynamic_closing,    \* self.dynamic_closing.text()
    auto_sort,          \* self.auto_sort.isChecked()
    display_fmt,        \* self.display_fmt.currentText()
    ops,                \* the number of handlers that have run
    disk,               \* what the last save_session wrote to its file
    trace,              \* history, kept where undo and redo are followed: the
                        \* kind of the handler that ran last and the ledger
                        \* as it was before that handler
    memo                \* what normalize_date, money2(parse_decimal(.)) and
                        \* try_parse_line give for the texts that the ledger
                        \* passes to them, computed once at construction

ledgerVars ==
    <<table, _next_row_id, _undo_stack, _redo_stack, _updating, opening, target_closing,
      date, dynamic_closing, auto_sort, display_fmt, ops, disk, trace, memo>>

VARIABLES
    transactions,   \* the committed rows of the table transactions, by id
    sequence,       \* the last id that AUTOINCREMENT has given out
    writer,         \* the worker whose connection holds the write lock of the
                    \* database file, 0 where no connection holds it
    request,        \* by worker thread, the request it serves and how far it is
    received        \* the number of requests received so far

backendVars == <<transactions, sequence, writer, request, received>>

vars == <<fn, arg, ret, pc, table, _next_row_id, _undo_stack, _redo_stack, _updating,
          opening, target_closing, date, dynamic_closing, auto_sort, display_fmt, ops, disk,
          trace, memo,
          transactions, sequence, writer, request, received>>

----------------------------------------------------------------------------
(* Characters and text                                                     *)

Digits == {"0", "1", "2", "3", "4", "5", "6", "7", "8", "9"}

DigitVal(c) ==
    CASE c = "0" -> 0 [] c = "1" -> 1 [] c = "2" -> 2 [] c = "3" -> 3
      [] c = "4" -> 4 [] c = "5" -> 5 [] c = "6" -> 6 [] c = "7" -> 7
      [] c = "8" -> 8 [] c = "9" -> 9

DigitChar(n) ==
    CASE n = 0 -> "0" [] n = 1 -> "1" [] n = 2 -> "2" [] n = 3 -> "3"
      [] n = 4 -> "4" [] n = 5 -> "5" [] n = 6 -> "6" [] n = 7 -> "7"
      [] n = 8 -> "8" [] n = 9 -> "9"

\* str.isspace(), and \s of a str pattern: Unicode white space, U+00A0 included
IsSpace(c) == c \in {" ", "\t", "nbsp"}

RECURSIVE Pow10(_)
Pow10(n) == IF n = 0 THEN 1 ELSE 10 * Pow10(n - 1)

\* the characters of s that belong to the set keep, in order
RECURSIVE SelectChars(_, _)
SelectChars(s, keep) ==
    IF s = <<>> THEN <<>>
    ELSE (IF Head(s) \in keep THEN <<Head(s)>> ELSE <<>>) \o SelectChars(Tail(s), keep)

\* str.replace(old, new) for a one-character old; new is text (possibly empty)
RECURSIVE Replace(_, _, _)
Replace(s, old, new) ==
    IF s = <<>> THEN <<>>
    ELSE (IF Head(s) = old THEN new ELSE <<Head(s)>>) \o Replace(Tail(s), old, new)

Contains(s, c) == \E i \in DOMAIN s : s[i] = c

\* str.count(c)
Count(s, c) == Cardinality({i \in DOMAIN s : s[i] = c})

\* str.rfind(c): the last index of c (1-based here), 0 when absent
RFind(s, c) ==
    IF Contains(s, c) THEN CHOOSE i \in DOMAIN s : s[i] = c /\ \A j \in DOMAIN s : s[j] = c => j <= i
    ELSE 0

RECURSIVE LStrip(_)
LStrip(s) == IF s # <<>> /\ IsSpace(Head(s)) THEN LStrip(Tail(s)) ELSE s

RECURSIVE RStrip(_)
RStrip(s) ==
    IF s # <<>> /\ IsSpace(s[Len(s)]) THEN RStrip(SubSeq(s, 1, Len(s) - 1)) ELSE s

\* str.strip()
Strip(s) == RStrip(LStrip(s))

----------------------------------------------------------------------------
(* decimal.Decimal                                                         *)

Dec(n, c, k) == [ok |-> TRUE, exc |-> "", neg |-> n, coef |-> c, scale |-> k]

Raised(e) == [ok |-> FALSE, exc |-> e, neg |-> FALSE, coef |-> 0, scale |-> 0]

\* Decimal("0")
DecZero == Dec(FALSE, 0, 0)

\* Decimal.__eq__: numeric equality (0.5 = 0.50, -0 = 0)
DecEq(a, b) ==
    /\ a.ok /\ b.ok
    /\ a.coef * Pow10(b.scale) = b.coef * Pow10(a.scale)
    /\ (a.coef # 0 => a.neg = b.neg)

\* Decimal(s), a left-to-right scan of [sign] digits [. digits] | [sign] . digits:
\* coef and scale build up, nd counts the digits seen
RECURSIVE ScanDecimal(_, _, _, _, _, _, _)
ScanDecimal(s, i, neg, inFrac, coef, scale, nd) ==
    IF i > Len(s) THEN
        IF nd > 0 THEN Dec(neg, coef, scale) ELSE Raised("InvalidOperation")
    ELSE IF s[i] \in Digits THEN
        ScanDecimal(s, i + 1, neg, inFrac, coef * 10 + DigitVal(s[i]),
                    IF inFrac THEN scale + 1 ELSE scale, nd + 1)
    ELSE IF s[i] = "." /\ ~inFrac THEN
        ScanDecimal(s, i + 1, neg, TRUE, coef, scale, nd)
    ELSE Raised("InvalidOperation")

DecimalOf(s) ==
    LET t == Strip(s) IN
    IF t # <<>> /\ t[1] \in {"-", "+"}
    THEN ScanDecimal(t, 2, t[1] = "-", FALSE, 0, 0, 0)
    ELSE ScanDecimal(t, 1, FALSE, FALSE, 0, 0, 0)

----------------------------------------------------------------------------
(* core.py: parse_decimal, money2                                          *)

\* re.sub(r"[^\d\-,.]", "", s)
NumberSymbols == Digits \cup {"-", ",", "."}

parse_decimal_strips_commas(s) ==
    LET s1 == Strip(s)
        s2 == SelectChars(s1, NumberSymbols)
        s3 == IF Contains(s2, ",") /\ Contains(s2, ".") THEN Replace(s2, ",", <<>>)
              ELSE IF Contains(s2, ",") THEN Replace(s2, ",", <<".">>)
              ELSE s2
    IN  IF s1 = <<>> THEN DecZero ELSE DecimalOf(s3)

parse_decimal_keeps_symbols(s) ==
    LET s1 == Strip(s)
        s3 == IF Contains(s1, ",") /\ Contains(s1, ".") THEN
                  IF RFind(s1, ",") > RFind(s1, ".")
                  THEN Replace(Replace(s1, ".", <<>>), ",", <<".">>)
                  ELSE Replace(s1, ",", <<>>)
              ELSE IF Contains(s1, ",") THEN Replace(s1, ",", <<".">>)
              ELSE s1
    IN  IF s1 = <<>> THEN DecZero ELSE DecimalOf(s3)

parse_decimal_zero_on_garbage(s) ==
    LET s2 == SelectChars(Strip(s), NumberSymbols)
        s3 == IF Contains(s2, ",") /\ Contains(s2, ".") THEN
                  IF RFind(s2, ",") > RFind(s2, ".")
                  THEN Replace(Replace(s2, ".", <<>>), ",", <<".">>)
                  ELSE Replace(s2, ",", <<>>)
              ELSE IF Contains(s2, ",") THEN Replace(s2, ",", <<".">>)
              ELSE s2
        d  == DecimalOf(s3)
    IN  IF d.ok THEN d ELSE DecZero

parse_decimal(s) ==
    LET s1 == Strip(s)
        s2 == SelectChars(s1, NumberSymbols)
        s3 == IF Contains(s2, ",") /\ Contains(s2, ".") THEN
                  IF RFind(s2, ",") > RFind(s2, ".")
                  THEN Replace(Replace(s2, ".", <<>>), ",", <<".">>)
                  ELSE Replace(s2, ",", <<>>)
              ELSE IF Contains(s2, ",") THEN Replace(s2, ",", <<".">>)
              ELSE s2
    IN  IF s1 = <<>> THEN DecZero ELSE DecimalOf(s3)

\* d.quantize(Decimal("0.01"), rounding=ROUND_HALF_EVEN)
money2_half_even(d) ==
    IF ~d.ok THEN d
    ELSE IF d.scale <= 2 THEN Dec(d.neg, d.coef * Pow10(2 - d.scale), 2)
    ELSE LET unit == Pow10(d.scale - 2)
             q    == d.coef \div unit
             r    == d.coef % unit
         IN  Dec(d.neg, IF 2 * r > unit \/ (2 * r = unit /\ q % 2 = 1) THEN q + 1 ELSE q, 2)

\* d.quantize(Decimal("0.01"), rounding=ROUND_HALF_UP); an exception in the
\* argument expression propagates
money2(d) ==
    IF ~d.ok THEN d
    ELSE IF d.scale <= 2 THEN Dec(d.neg, d.coef * Pow10(2 - d.scale), 2)
    ELSE LET unit == Pow10(d.scale - 2)
             q    == d.coef \div unit
             r    == d.coef % unit
         IN  Dec(d.neg, IF 2 * r >= unit THEN q + 1 ELSE q, 2)

----------------------------------------------------------------------------
(* core.py: norm_spaces, normalize_date, date_key                          *)

\* re.sub(r"\s+", " ", s): every maximal run of white space becomes one space
RECURSIVE CollapseSpaces(_)
CollapseSpaces(s) ==
    IF s = <<>> THEN <<>>
    ELSE IF IsSpace(Head(s)) THEN <<" ">> \o CollapseSpaces(LStrip(s))
    ELSE <<Head(s)>> \o CollapseSpaces(Tail(s))

norm_spaces(s) == Strip(CollapseSpaces(Replace(s, "nbsp", <<" ">>)))

\* str.split(sep) for a one-character sep: the pieces between the separators,
\* empty pieces kept; cur is the piece being read
RECURSIVE SplitOn(_, _, _)
SplitOn(s, sep, cur) ==
    IF s = <<>> THEN <<cur>>
    ELSE IF Head(s) = sep THEN <<cur>> \o SplitOn(Tail(s), sep, <<>>)
    ELSE SplitOn(Tail(s), sep, Append(cur, Head(s)))

AllDigits(s) == \A i \in DOMAIN s : s[i] \in Digits

\* int(s) for a text of digits
RECURSIVE IntOf(_)
IntOf(s) ==
    IF s = <<>> THEN 0
    ELSE 10 * IntOf(SubSeq(s, 1, Len(s) - 1)) + DigitVal(s[Len(s)])

\* str(n) for n >= 0
RECURSIVE IntText(_)
IntText(n) ==
    IF n < 10 THEN <<DigitChar(n)>> ELSE Append(IntText(n \div 10), DigitChar(n % 10))

\* the directives of _strptime as regular expressions, each matched against one
\* whole field:  %Y \d\d\d\d   %y \d\d   %m 1[0-2]|0[1-9]|[1-9]
\*               %d 3[01]|[12]\d|0[1-9]|[1-9]| [1-9]
MatchesDirective(dir, f) ==
    CASE dir = "Y" -> Len(f) = 4 /\ AllDigits(f)
      [] dir = "y" -> Len(f) = 2 /\ AllDigits(f)
      [] dir = "m" -> \/ Len(f) = 2 /\ AllDigits(f) /\ IntOf(f) \in 1..12
                      \/ Len(f) = 1 /\ AllDigits(f) /\ IntOf(f) \in 1..9
      [] dir = "d" -> \/ Len(f) = 2 /\ AllDigits(f) /\ IntOf(f) \in 1..31
                      \/ Len(f) = 1 /\ AllDigits(f) /\ IntOf(f) \in 1..9
                      \/ Len(f) = 2 /\ f[1] = " " /\ f[2] \in Digits /\ IntOf(<<f[2]>>) \in 1..9

\* the value of a matched field; a two-digit year is 2000+ up to 68, 1900+ from 69
DirectiveValue(dir, f) ==
    LET n == IntOf(SelectChars(f, Digits)) IN
    IF dir = "y" THEN (IF n <= 68 THEN 2000 + n ELSE 1900 + n) ELSE n

IsLeap(y) == (y % 4 = 0 /\ y % 100 # 0) \/ y % 400 = 0

DaysInMonth(y, m) ==
    IF m = 2 THEN (IF IsLeap(y) THEN 29 ELSE 28)
    ELSE IF m \in {4, 6, 9, 11} THEN 30 ELSE 31

\* datetime(y, m, d) exists: MINYEAR <= y, and the day is in the month
RealDate(y, m, d) == y >= 1 /\ m \in 1..12 /\ d >= 1 /\ d <= DaysInMonth(y, m)

NoDate == [ok |-> FALSE, y |-> 0, m |-> 0, d |-> 0]

\* datetime.strptime(s, fmt) for a format of three directives joined by one
\* separator character (sep = "" for %Y%m%d): ok = FALSE stands for ValueError
strptime(s, dirs, sep) ==
    LET f == IF sep = "" THEN
                 (IF Len(s) = 8 THEN <<SubSeq(s, 1, 4), SubSeq(s, 5, 6), SubSeq(s, 7, 8)>>
                  ELSE <<>>)
             ELSE SplitOn(s, sep, <<>>)
    IN  IF Len(f) # 3 THEN NoDate
        ELSE IF \E i \in 1..3 : ~MatchesDirective(dirs[i], f[i]) THEN NoDate
        ELSE LET val(dir) == DirectiveValue(dir, f[CHOOSE i \in 1..3 : dirs[i] = dir])
                 y == IF \E i \in 1..3 : dirs[i] = "Y" THEN val("Y") ELSE val("y")
             IN  IF RealDate(y, val("m"), val("d"))
                 THEN [ok |-> TRUE, y |-> y, m |-> val("m"), d |-> val("d")]
                 ELSE NoDate

Pad2(n) == IF n < 10 THEN <<"0", DigitChar(n)>> ELSE IntText(n)

\* dt.strftime("%Y/%m/%d"): the C library's %Y does not pad a year below 1000
strftime(dt) == IntText(dt.y) \o <<"/">> \o Pad2(dt.m) \o <<"/">> \o Pad2(dt.d)

\* the candidates with the month-first formats put before the day-first ones
DateFormats_month_first ==
    << [dirs |-> <<"Y", "m", "d">>, sep |-> "/"],
       [dirs |-> <<"Y", "m", "d">>, sep |-> "-"],
       [dirs |-> <<"Y", "m", "d">>, sep |-> "."],
       [dirs |-> <<"m", "d", "Y">>, sep |-> "/"],
       [dirs |-> <<"m", "d", "Y">>, sep |-> "-"],
       [dirs |-> <<"d", "m", "Y">>, sep |-> "/"],
       [dirs |-> <<"d", "m", "Y">>, sep |-> "-"],
       [dirs |-> <<"d", "m", "Y">>, sep |-> "."],
       [dirs |-> <<"d", "m", "y">>, sep |-> "/"],
       [dirs |-> <<"d", "m", "y">>, sep |-> "-"],
       [dirs |-> <<"d", "m", "y">>, sep |-> "."] >>

\* the candidates of normalize_date, in its order
DateFormats ==
    << [dirs |-> <<"Y", "m", "d">>, sep |-> "/"],
       [dirs |-> <<"Y", "m", "d">>, sep |-> "-"],
       [dirs |-> <<"Y", "m", "d">>, sep |-> "."],
       [dirs |-> <<"d", "m", "Y">>, sep |-> "/"],
       [dirs |-> <<"d", "m", "Y">>, sep |-> "-"],
       [dirs |-> <<"d", "m", "Y">>, sep |-> "."],
       [dirs |-> <<"d", "m", "y">>, sep |-> "/"],
       [dirs |-> <<"d", "m", "y">>, sep |-> "-"],
       [dirs |-> <<"d", "m", "y">>, sep |-> "."],
       [dirs |-> <<"m", "d", "Y">>, sep |-> "/"],
       [dirs |-> <<"m", "d", "Y">>, sep |-> "-"] >>

\* the loop over the formats from the i-th on: the first that parses s gives
\* the date, written with strftime, and <<>> says that none does
RECURSIVE FirstFormat(_, _)
FirstFormat(s, i) ==
    IF i > Len(DateFormats) THEN <<>>
    ELSE LET dt == strptime(s, DateFormats[i].dirs, DateFormats[i].sep)
         IN  IF dt.ok THEN strftime(dt) ELSE FirstFormat(s, i + 1)

normalize_date(s0) ==
    LET s == norm_spaces(s0)
        hit == FirstFormat(s, 1)
    IN  IF s = <<>> THEN <<>>
        ELSE IF hit # <<>> THEN hit
        ELSE IF Len(s) = 8 /\ AllDigits(s) /\ strptime(s, <<"Y", "m", "d">>, "").ok THEN
            strftime(strptime(s, <<"Y", "m", "d">>, ""))
        ELSE <<>>

date_key(date_str) ==
    LET d == normalize_date(date_str) IN
    IF d = <<>> THEN [rank |-> 1, value |-> <<"9", "9", "9", "9", "/", "9", "9", "/", "9", "9">>]
    ELSE [rank |-> 0, value |-> d]

----------------------------------------------------------------------------
(* core.py: try_parse_line                                                 *)

\* next(csv.reader([raw])) in the default dialect (delimiter ',', quotechar '"',
\* doublequote, not strict) for one line without line breaks.  st is the state
\* of the reader: "start" (START_FIELD), "field" (IN_FIELD), "quoted"
\* (IN_QUOTED_FIELD), "quote" (QUOTE_IN_QUOTED_FIELD); the end of the line saves
\* the field being read.
RECURSIVE csv_reader(_, _, _, _)
csv_reader(s, st, cur, row) ==
    IF s = <<>> THEN Append(row, cur)
    ELSE LET c == Head(s)
             rest == Tail(s)
         IN  CASE st = "start" ->
                    IF c = "\"" THEN csv_reader(rest, "quoted", cur, row)
                    ELSE IF c = "," THEN csv_reader(rest, "start", <<>>, Append(row, cur))
                    ELSE csv_reader(rest, "field", Append(cur, c), row)
               [] st = "field" ->
                    IF c = "," THEN csv_reader(rest, "start", <<>>, Append(row, cur))
                    ELSE csv_reader(rest, "field", Append(cur, c), row)
               [] st = "quoted" ->
                    IF c = "\"" THEN csv_reader(rest, "quote", cur, row)
                    ELSE csv_reader(rest, "quoted", Append(cur, c), row)
               [] st = "quote" ->
                    IF c = "\"" THEN csv_reader(rest, "quoted", Append(cur, c), row)
                    ELSE IF c = "," THEN csv_reader(rest, "start", <<>>, Append(row, cur))
                    ELSE csv_reader(rest, "field", Append(cur, c), row)

\* the elements of a sequence of texts that are not blank, each stripped:
\* [p.strip() for p in parts if p.strip() != ""]
RECURSIVE StrippedNonBlank(_)
StrippedNonBlank(parts) ==
    IF parts = <<>> THEN <<>>
    ELSE (IF Strip(Head(parts)) # <<>> THEN <<Strip(Head(parts))>> ELSE <<>>)
         \o StrippedNonBlank(Tail(parts))

\* the length of the run of white space that s starts with
RECURSIVE SpaceRun(_)
SpaceRun(s) == IF s # <<>> /\ IsSpace(Head(s)) THEN 1 + SpaceRun(Tail(s)) ELSE 0

\* re.split(r"\s{2,}", s): split at every maximal run of two or more white-space
\* characters; a single one stays in its piece
RECURSIVE SplitWideSpace(_, _)
SplitWideSpace(s, cur) ==
    IF s = <<>> THEN <<cur>>
    ELSE IF SpaceRun(s) >= 2
         THEN <<cur>> \o SplitWideSpace(SubSeq(s, SpaceRun(s) + 1, Len(s)), <<>>)
    ELSE SplitWideSpace(Tail(s), Append(cur, Head(s)))

\* str.split(): the maximal runs of characters that are not white space
RECURSIVE SplitSpace(_, _)
SplitSpace(s, cur) ==
    IF s = <<>> THEN (IF cur = <<>> THEN <<>> ELSE <<cur>>)
    ELSE IF IsSpace(Head(s))
         THEN (IF cur = <<>> THEN <<>> ELSE <<cur>>) \o SplitSpace(Tail(s), <<>>)
    ELSE SplitSpace(Tail(s), Append(cur, Head(s)))

\* " ".join(toks)
RECURSIVE JoinSpace(_)
JoinSpace(toks) ==
    IF toks = <<>> THEN <<>>
    ELSE IF Len(toks) = 1 THEN toks[1]
    ELSE toks[1] \o <<" ">> \o JoinSpace(Tail(toks))

\* the outcomes of try_parse_line, and of one strategy of it ("next": go on)
Transaction(d, desc, amt) ==
    [kind |-> "Transaction", exc |-> "", date |-> d, description |-> desc, amount |-> amt]

Outcome(k, e) ==
    [kind |-> k, exc |-> e, date |-> <<>>, description |-> <<>>, amount |-> DecZero]

\* Transaction(d, norm_spaces(desc), money2(parse_decimal(amt))) where the date
\* field normalizes; caught tells whether the statement is inside a try that
\* catches ArithmeticError (decimal.InvalidOperation is one)
BuildTransaction(fields, desc, amtField, caught) ==
    LET d == normalize_date(fields[1])
        amt == money2(parse_decimal(amtField))
    IN  IF d = <<>> THEN Outcome("next", "")
        ELSE IF amt.ok THEN Transaction(d, norm_spaces(desc), amt)
        ELSE IF caught THEN Outcome("next", "")
        ELSE Outcome("raise", amt.exc)

\* lines 90-97
CsvStrategy(raw) ==
    LET row == csv_reader(raw, "start", <<>>, <<>>) IN
    IF Len(row) >= 3 THEN BuildTransaction(row, row[2], row[3], TRUE)
    ELSE Outcome("next", "")

\* lines 99-104
TabStrategy(raw) ==
    LET parts == StrippedNonBlank(SplitOn(raw, "\t", <<>>)) IN
    IF Contains(raw, "\t") /\ Len(parts) >= 3
    THEN BuildTransaction(parts, parts[2], parts[3], FALSE)
    ELSE Outcome("next", "")

\* lines 106-110
WideSpaceStrategy(raw) ==
    LET parts == SplitWideSpace(raw, <<>>) IN
    IF Len(parts) >= 3 THEN BuildTransaction(parts, parts[2], parts[3], FALSE)
    ELSE Outcome("next", "")

\* lines 112-122
TokenStrategy(raw) ==
    LET toks == SplitSpace(raw, <<>>) IN
    IF Len(toks) >= 3
    THEN BuildTransaction(toks, JoinSpace(SubSeq(toks, 2, Len(toks) - 1)), toks[Len(toks)], TRUE)
    ELSE Outcome("next", "")

try_parse_line(line) ==
    LET raw == Strip(line) IN
    IF raw = <<>> THEN Outcome("None", "")
    ELSE IF CsvStrategy(raw).kind # "next" THEN CsvStrategy(raw)
    ELSE IF TabStrategy(raw).kind # "next" THEN TabStrategy(raw)
    ELSE IF WideSpaceStrategy(raw).kind # "next" THEN WideSpaceStrategy(raw)
    ELSE IF TokenStrategy(raw).kind # "next" THEN TokenStrategy(raw)
    ELSE Outcome("None", "")

----------------------------------------------------------------------------
(* csveditor.py, FastEntry: the table and what is computed from it.        *)
(* A row is [id, date, text, desc, cat, amt, run]: the id (UserRole) and   *)
(* the canonical date (UserRole + 1) of the date item, the text the date   *)
(* item shows, and the texts of the other four items.  The quick filter is *)
(* left empty throughout, so no row is hidden; the autocomplete dictionary *)
(* is not part of the ledger.  The itemChanged signals that the handlers'  *)
(* own writes to the table raise are taken to be stopped by _updating.     *)

DisplayFormats == {"YYYY/MM/DD", "DD/MM/YYYY"}

\* The date texts that reach normalize_date from the ledger: those of the entry
\* forms, cell texts, pasted lines and session files, and what normalize_date
\* and the display formats make of them.
LedgerDateTexts ==
    { <<>>, <<"x">>,
      <<"2", "0", "2", "5", "/", "0", "1", "/", "1", "0">>,
      <<"2", "0", "2", "5", "-", "0", "1", "-", "1", "0">>,
      <<"1", "0", "/", "0", "1", "/", "2", "0", "2", "5">>,
      <<"2", "0", "2", "5", "/", "0", "1", "/", "0", "2">>,
      <<"2", "0", "2", "5", "-", "0", "1", "-", "0", "2">>,
      <<"0", "2", "/", "0", "1", "/", "2", "0", "2", "5">>,
      <<"2", "0", "2", "5", "/", "0", "2", "/", "0", "1">>,
      <<"0", "1", "/", "0", "2", "/", "2", "0", "2", "5">>,
      <<"0", "1", "/", "1", "3", "/", "2", "0", "2", "5">>,
      <<"2", "0", "2", "5", "/", "1", "3", "/", "0", "1">>,
      <<"2", "0", "2", "5", "/", "0", "1", "/", "1", "3">>,
      <<"1", "3", "/", "0", "1", "/", "2", "0", "2", "5">> }

\* The amount texts that reach parse_decimal from the ledger: those of the
\* entry forms, opening balances, pasted lines and session files, and the
\* two-decimal texts that the amount cells are given.
LedgerAmountTexts ==
    { <<>>, <<"x">>, <<"-", "3", ".", "5", "0">>, <<"1", ".", "0", "0", "5">>,
      <<"1", ".", "0", "1">>, <<"0", ".", "0", "0">> }

\* the lines that can be pasted
PasteLine1 == <<"2", "0", "2", "5", "-", "0", "1", "-", "1", "0", ",", "a", ",", "-", "3", ".", "5", "0">>
PasteLine2 == <<"0", "2", "/", "0", "1", "/", "2", "0", "2", "5", "\t", "b", "\t", "1", ".", "0", "0", "5">>
PasteLineBad == <<"x">>
PasteLineRaising == <<"2", "0", "2", "5", "-", "0", "1", "-", "1", "0", "\t", "a", "\t", "1", "-", "2">>

PasteLines == {PasteLine1, PasteLine2, PasteLineBad, PasteLineRaising}

\* core.py as the ledger sees it: the three functions are computed once for
\* each text above and the handlers read the outcomes from these tables.  A
\* text outside the tables is an error of the model, not a value.
CoreOutcomes ==
    [normalize_date |-> [d \in LedgerDateTexts |-> normalize_date(d)],
     amount |-> [txt \in LedgerAmountTexts |-> money2(parse_decimal(txt))],
     try_parse_line |-> [ln \in PasteLines |-> try_parse_line(ln)]]

\* normalize_date(d)
NormalizedDate(d) == memo.normalize_date[d]

\* money2(parse_decimal(txt)), raising or not
ParsedAmount(txt) == memo.amount[txt]

\* date_key(d)
DateKey(d) ==
    LET nd == NormalizedDate(d) IN
    IF nd = <<>>
    THEN [rank |-> 1, value |-> <<"9", "9", "9", "9", "/", "9", "9", "/", "9", "9">>]
    ELSE [rank |-> 0, value |-> nd]

\* f"{amt:.2f}" and str(amt) for a Decimal of two fractional digits
Format2(d) ==
    (IF d.neg THEN <<"-">> ELSE <<>>)
    \o IntText(d.coef \div 100) \o <<".">> \o Pad2(d.coef % 100)

SignedCoef(d) == IF d.neg THEN 0 - d.coef ELSE d.coef

\* a + b of two Decimals
DecAdd(a, b) ==
    LET k == IF a.scale >= b.scale THEN a.scale ELSE b.scale
        v == SignedCoef(a) * Pow10(k - a.scale) + SignedCoef(b) * Pow10(k - b.scale)
    IN  Dec(v < 0 \/ (v = 0 /\ a.neg /\ b.neg), IF v < 0 THEN 0 - v ELSE v, k)

\* money2(parse_decimal(txt)), Decimal("0.00") where that raises
AmountOrZero(txt) ==
    LET a == ParsedAmount(txt) IN IF a.ok THEN a ELSE Dec(FALSE, 0, 2)

canonical_to_display_date(fmt, d) ==
    LET parts == SplitOn(d, "/", <<>>) IN
    IF fmt # "DD/MM/YYYY" THEN d
    ELSE IF Len(parts) = 3 THEN parts[3] \o <<"/">> \o parts[2] \o <<"/">> \o parts[1]
    ELSE d

display_to_canonical_date(fmt, d0) ==
    LET d == Strip(d0)
        p == SplitOn(d, "/", <<>>)
    IN  NormalizedDate(
            IF fmt = "DD/MM/YYYY" /\ Count(d, "/") = 2 /\ Len(p[1]) <= 2 /\ Len(p[3]) = 4
            THEN p[3] \o <<"/">> \o p[2] \o <<"/">> \o p[1]
            ELSE d)

\* insert_row: the table with one more row at its end
insert_row(tbl, fmt, d, desc, category, amt_txt, row_id) ==
    LET nd == NormalizedDate(d)
        canonical_date == IF nd # <<>> THEN nd ELSE d
    IN  Append(tbl, [id   |-> row_id,
                     date |-> canonical_date,
                     text |-> canonical_to_display_date(fmt, canonical_date),
                     desc |-> norm_spaces(desc),
                     cat  |-> norm_spaces(category),
                     amt  |-> Format2(AmountOrZero(amt_txt)),
                     run  |-> <<"0", ".", "0", "0">>])

\* the code point order of the characters of a date_key value
CharCode(c) == IF c = "/" THEN 47 ELSE IF c \in Digits THEN 48 + DigitVal(c) ELSE 128

\* a < b for two texts, as Python compares str
RECURSIVE TextLess(_, _)
TextLess(a, b) ==
    IF b = <<>> THEN FALSE
    ELSE IF a = <<>> THEN TRUE
    ELSE IF Head(a) # Head(b) THEN CharCode(Head(a)) < CharCode(Head(b))
    ELSE TextLess(Tail(a), Tail(b))

\* lines 413-420: the rows collected with their date_key
Keyed(tbl) == [r \in DOMAIN tbl |-> [key |-> DateKey(tbl[r].date), row |-> tbl[r]]]

\* x before y in the order of (x[0], x[5]), compared as Python compares tuples
KeyLess(x, y) ==
    \/ x.key.rank < y.key.rank
    \/ x.key.rank = y.key.rank /\ TextLess(x.key.value, y.key.value)
    \/ x.key = y.key /\ x.row.id < y.row.id

\* list.sort(key=...): stable, each row put after the rows that are not greater
RECURSIVE InsertSorted(_, _)
InsertSorted(sorted, x) ==
    IF sorted = <<>> THEN <<x>>
    ELSE IF KeyLess(x, Head(sorted)) THEN <<x>> \o sorted
    ELSE <<Head(sorted)>> \o InsertSorted(Tail(sorted), x)

RECURSIVE SortRows(_)
SortRows(rows) ==
    IF rows = <<>> THEN <<>>
    ELSE InsertSorted(SortRows(SubSeq(rows, 1, Len(rows) - 1)), rows[Len(rows)])

\* the table rebuilt from the sorted rows through insert_row
RECURSIVE Reinsert(_, _, _)
Reinsert(tbl, fmt, rows) ==
    IF rows = <<>> THEN tbl
    ELSE Reinsert(insert_row(tbl, fmt, Head(rows).row.date, Head(rows).row.desc,
                             Head(rows).row.cat, Head(rows).row.amt, Head(rows).row.id),
                  fmt, Tail(rows))

\* update_running_balances: running is the balance before the first row of tbl
RECURSIVE RunningFrom(_, _)
RunningFrom(tbl, running) ==
    IF tbl = <<>> THEN <<>>
    ELSE LET r == money2(DecAdd(running, AmountOrZero(Head(tbl).amt)))
         IN  <<[Head(tbl) EXCEPT !.run = Format2(r)]>> \o RunningFrom(Tail(tbl), r)

\* update_running_balances with the opening balance taken as it is typed, not
\* rounded to cents
update_running_balances_unrounded_opening(tbl, opening_txt) ==
    RunningFrom(tbl, IF parse_decimal(opening_txt).ok THEN parse_decimal(opening_txt)
                     ELSE Dec(FALSE, 0, 2))

update_running_balances(tbl, opening_txt) == RunningFrom(tbl, AmountOrZero(opening_txt))

\* sort_by_date_if_enabled, with the update_running_balances of either branch
sort_by_date_if_enabled(tbl, sorting, fmt, opening_txt) ==
    update_running_balances(
        IF ~sorting THEN tbl ELSE Reinsert(<<>>, fmt, SortRows(Keyed(tbl))), opening_txt)

\* get_rows(strict=False): the (Transaction, category) pairs it returns
RECURSIVE get_rows_lenient(_)
get_rows_lenient(tbl) ==
    IF tbl = <<>> THEN <<>>
    ELSE LET r == Head(tbl)
             nd == NormalizedDate(r.date)
             d2 == IF nd # <<>> THEN nd ELSE r.date
             amt2 == AmountOrZero(Strip(r.amt))
         IN  (IF d2 # <<>>
              THEN <<[date |-> d2, description |-> norm_spaces(Strip(r.desc)),
                      amount |-> amt2, category |-> norm_spaces(Strip(r.cat))]>>
              ELSE <<>>)
             \o get_rows_lenient(Tail(tbl))

RECURSIVE SumAmounts(_)
SumAmounts(rows) ==
    IF rows = <<>> THEN Dec(FALSE, 0, 2)
    ELSE DecAdd(SumAmounts(SubSeq(rows, 1, Len(rows) - 1)), rows[Len(rows)].amount)

\* get_rows(strict) from row r on: out is the list of the (Transaction,
\* category) pairs and errors the list of the messages, each message given by
\* the number of its row and the check that the row fails
RECURSIVE GetRowsFrom(_, _, _)
GetRowsFrom(tbl, r, strict) ==
    IF r > Len(tbl) THEN [out |-> <<>>, errors |-> <<>>]
    ELSE LET d == tbl[r].date
             nd == NormalizedDate(d)
             desc2 == norm_spaces(Strip(tbl[r].desc))
             cat2 == norm_spaces(Strip(tbl[r].cat))
             amt == ParsedAmount(Strip(tbl[r].amt))
             d2 == IF ~strict /\ nd = <<>> THEN d ELSE nd
             amt2 == IF ~strict /\ ~amt.ok THEN Dec(FALSE, 0, 2) ELSE amt
             rest == GetRowsFrom(tbl, r + 1, strict)
         IN  [out |->
                 (IF d2 # <<>> /\ amt2.ok
                  THEN <<[date |-> d2, description |-> desc2, amount |-> amt2,
                          category |-> cat2]>>
                  ELSE <<>>) \o rest.out,
              errors |->
                 (IF nd = <<>> THEN <<[row |-> r, issue |-> "invalid date"]>> ELSE <<>>)
                 \o (IF ~amt.ok THEN <<[row |-> r, issue |-> "invalid amount"]>> ELSE <<>>)
                 \o (IF strict /\ desc2 = <<>>
                     THEN <<[row |-> r, issue |-> "description is empty"]>> ELSE <<>>)
                 \o rest.errors]

get_rows(tbl, strict) == GetRowsFrom(tbl, 1, strict)

\* recompute_dynamic_closing: the text it puts in self.dynamic_closing
DynamicClosing(tbl, opening_txt) ==
    Format2(money2(DecAdd(AmountOrZero(opening_txt), SumAmounts(get_rows_lenient(tbl)))))

\* is_duplicate; the texts are compared lower-cased
Lower(s) == [i \in DOMAIN s |-> IF s[i] = "A" THEN "a" ELSE IF s[i] = "B" THEN "b" ELSE s[i]]

\* is_duplicate with the texts compared as they are spelled, capitals apart
\* from small letters
is_duplicate_case_sensitive(tbl, d, desc, category, amt) ==
    \E r \in DOMAIN tbl :
        /\ tbl[r].date = d
        /\ norm_spaces(tbl[r].desc) = norm_spaces(desc)
        /\ norm_spaces(tbl[r].cat) = norm_spaces(category)
        /\ DecEq(AmountOrZero(tbl[r].amt), amt)

is_duplicate(tbl, d, desc, category, amt) ==
    \E r \in DOMAIN tbl :
        /\ tbl[r].date = d
        /\ Lower(norm_spaces(tbl[r].desc)) = Lower(norm_spaces(desc))
        /\ Lower(norm_spaces(tbl[r].cat)) = Lower(norm_spaces(category))
        /\ DecEq(AmountOrZero(tbl[r].amt), amt)

UndoLimit == 100

\* capture_state in a ledger of these fields and rows
StateOf(opening_txt, target_txt, date_txt, next, tbl) ==
    [opening |-> opening_txt, target |-> target_txt, current_date |-> date_txt,
     next_row_id |-> next,
     rows |-> [r \in DOMAIN tbl |->
                 [id |-> tbl[r].id, date |-> tbl[r].date, description |-> tbl[r].desc,
                  category |-> tbl[r].cat, amount |-> tbl[r].amt]]]

capture_state == StateOf(opening, target_closing, date, _next_row_id, table)

\* the ledger: the rows, the opening and target texts and the next id (what
\* capture_state holds, without the text of the date entry field)
Ledger == StateOf(opening, target_closing, <<>>, _next_row_id, table)

\* no handler has run
NoTrace == [kind |-> "none", ledger |-> StateOf(<<>>, <<>>, <<>>, 1, <<>>)]

\* push_undo_snapshot: the undo stack it leaves (the redo stack is emptied)
push_undo_snapshot(stack, state) ==
    LET s == Append(stack, state) IN
    IF Len(s) > UndoLimit THEN SubSeq(s, Len(s) - UndoLimit + 1, Len(s)) ELSE s

PushedUndo == push_undo_snapshot(_undo_stack, capture_state)

----------------------------------------------------------------------------
(* csveditor.py, FastEntry: the handlers                                   *)

MaxRows == 3
MaxOps == 4

\* one more handler of the front end runs; the backend is another program
Ran == ops < MaxOps /\ ops' = ops + 1 /\ UNCHANGED memo /\ UNCHANGED backendVars

\* a handler that writes no file runs
Step == Ran /\ UNCHANGED disk /\ UNCHANGED trace

\* what the operator types in the entry fields and in the edit fields:
\* <<date, description, category, amount>>
EntryForms ==
    { << <<"2", "0", "2", "5", "/", "0", "1", "/", "1", "0">>, <<"a">>, <<>>,
         <<"-", "3", ".", "5", "0">> >>,
      << <<"0", "2", "/", "0", "1", "/", "2", "0", "2", "5">>, <<"B", " ">>, <<>>,
         <<"1", ".", "0", "0", "5">> >>,
      << <<"2", "0", "2", "5", "/", "0", "1", "/", "1", "0">>, <<"a">>, <<>>, <<"x">> >> }

OpeningTexts == { <<>>, <<"1", ".", "0", "0", "5">> }

\* the pasted text, as text.splitlines() gives it
Pastes ==
    { <<PasteLine1, PasteLine1>>, <<PasteLine2, PasteLineBad, PasteLine1>>,
      <<PasteLine2, PasteLineRaising>> }

\* what the handlers that end with sort_by_date_if_enabled and
\* recompute_dynamic_closing leave in the table and in the dynamic closing
Settled(tbl) == sort_by_date_if_enabled(tbl, auto_sort, display_fmt, opening)

\* self.opening.textChanged -> recompute_dynamic_closing
TypeOpening(txt) ==
    /\ opening # txt
    /\ opening' = txt
    /\ dynamic_closing' = DynamicClosing(table, txt)
    /\ table' = update_running_balances(table, txt)
    /\ _updating' = FALSE
    /\ UNCHANGED coreVars
    /\ UNCHANGED <<_next_row_id, _undo_stack, _redo_stack, target_closing, date,
                   auto_sort, display_fmt>>

\* self.auto_sort.stateChanged -> sort_by_date_if_enabled(None)
ToggleAutoSort ==
    /\ Step
    /\ auto_sort' = ~auto_sort
    /\ table' = sort_by_date_if_enabled(table, ~auto_sort, display_fmt, opening)
    /\ _updating' = FALSE
    /\ UNCHANGED coreVars
    /\ UNCHANGED <<_next_row_id, _undo_stack, _redo_stack, opening, target_closing, date,
                   dynamic_closing, display_fmt>>

\* add_current_row with these texts in the four entry fields; yes is the answer
\* to the duplicate prompt, if it is shown
add_current_row(date_txt, desc_txt, category_txt, amount_txt, yes) ==
    LET d == display_to_canonical_date(display_fmt, date_txt)
        desc == norm_spaces(desc_txt)
        category == norm_spaces(category_txt)
        amt == ParsedAmount(Strip(amount_txt))
        dupl == is_duplicate(table, d, desc, category, amt)
        tbl == Settled(insert_row(table, display_fmt, d, desc, category, Format2(amt), _next_row_id))
    IN  /\ date' = date_txt
        /\ UNCHANGED coreVars
        /\ IF d = <<>> \/ desc = <<>> \/ ~amt.ok THEN
                /\ UNCHANGED <<table, _next_row_id, _undo_stack, _redo_stack, _updating, opening,
                               target_closing, dynamic_closing, auto_sort, display_fmt>>
           ELSE IF dupl /\ ~yes THEN
                /\ UNCHANGED <<table, _next_row_id, _undo_stack, _redo_stack, _updating, opening,
                               target_closing, dynamic_closing, auto_sort, display_fmt>>
           ELSE
                /\ Len(table) < MaxRows
                /\ _undo_stack' = push_undo_snapshot(_undo_stack,
                                      StateOf(opening, target_closing, date_txt, _next_row_id, table))
                /\ _redo_stack' = <<>>
                /\ _next_row_id' = _next_row_id + 1
                /\ table' = tbl
                /\ dynamic_closing' = DynamicClosing(tbl, opening)
                /\ _updating' = FALSE
                /\ UNCHANGED <<opening, target_closing, auto_sort, display_fmt>>

\* try_parse_line(ln) for each line of the paste that is not blank
Parsed(lines) ==
    [i \in DOMAIN lines |->
        IF Strip(lines[i]) = <<>> THEN Outcome("None", "") ELSE memo.try_parse_line[lines[i]]]

\* lines 686-696: the preview rows of the parsed lines, last_date being the date
\* carried forward (try_parse_line always gives a date, so it is never used)
RECURSIVE PreviewOf(_)
PreviewOf(parsed) ==
    IF parsed = <<>> THEN <<>>
    ELSE (IF Head(parsed).kind = "Transaction" THEN <<Head(parsed)>> ELSE <<>>)
         \o PreviewOf(Tail(parsed))

\* lines 712-721: the rows of the preview that is_duplicate does not report are
\* inserted; st is [tbl, next, dup]
RECURSIVE ImportRows(_, _, _)
ImportRows(st, fmt, preview) ==
    IF preview = <<>> THEN st
    ELSE LET p == Head(preview) IN
         IF is_duplicate(st.tbl, p.date, p.description, <<>>, p.amount)
         THEN ImportRows([st EXCEPT !.dup = @ + 1], fmt, Tail(preview))
         ELSE ImportRows([st EXCEPT !.tbl = insert_row(@, fmt, p.date, p.description, <<>>,
                                                        Format2(p.amount), st.next),
                                     !.next = @ + 1],
                         fmt, Tail(preview))

\* try_parse_line raises on one of the lines
Raises(parsed) == \E i \in DOMAIN parsed : parsed[i].kind = "raise"

\* import_paste; yes is the answer to the import preview
import_paste(lines, yes) ==
    LET parsed == Parsed(lines)
        raised == Raises(parsed)
        preview == PreviewOf(parsed)
        st == ImportRows([tbl |-> table, next |-> _next_row_id, dup |-> 0], display_fmt, preview)
        last_date == preview[Len(preview)].date
        tbl == Settled(st.tbl)
    IN  IF raised \/ preview = <<>> \/ ~yes THEN
            /\ UNCHANGED coreVars
            /\ UNCHANGED <<table, _next_row_id, _undo_stack, _redo_stack, _updating, opening,
                           target_closing, date, dynamic_closing, auto_sort, display_fmt>>
        ELSE
            /\ Len(st.tbl) <= MaxRows
            /\ _undo_stack' = PushedUndo
            /\ _redo_stack' = <<>>
            /\ _next_row_id' = st.next
            /\ date' = canonical_to_display_date(display_fmt, last_date)
            /\ table' = tbl
            /\ dynamic_closing' = DynamicClosing(tbl, opening)
            /\ _updating' = FALSE
            /\ UNCHANGED coreVars
            /\ UNCHANGED <<opening, target_closing, auto_sort, display_fmt>>

\* the rows of tbl whose index is not in sel
RECURSIVE RemoveRows(_, _, _)
RemoveRows(tbl, sel, i) ==
    IF i > Len(tbl) THEN <<>>
    ELSE (IF i \in sel THEN <<>> ELSE <<tbl[i]>>) \o RemoveRows(tbl, sel, i + 1)

\* delete_selected; sel is the selection, yes the answer to the confirmation
delete_selected(sel, yes) ==
    /\ sel # {}
    /\ IF ~yes THEN
            /\ UNCHANGED coreVars
            /\ UNCHANGED <<table, _next_row_id, _undo_stack, _redo_stack, _updating, opening,
                           target_closing, date, dynamic_closing, auto_sort, display_fmt>>
       ELSE
            /\ _undo_stack' = PushedUndo
            /\ _redo_stack' = <<>>
            /\ table' = update_running_balances(RemoveRows(table, sel, 1), opening)
            /\ dynamic_closing' = DynamicClosing(RemoveRows(table, sel, 1), opening)
            /\ _updating' = FALSE
            /\ UNCHANGED coreVars
            /\ UNCHANGED <<_next_row_id, opening, target_closing, date, auto_sort, display_fmt>>

\* lines 759-766: a copy of each selected row, in row order, with a new id
RECURSIVE Duplicated(_, _, _, _, _)
Duplicated(tbl, fmt, sel, i, next) ==
    IF i > Len(table) THEN tbl
    ELSE IF i \in sel
         THEN Duplicated(insert_row(tbl, fmt, tbl[i].date, tbl[i].desc, tbl[i].cat, tbl[i].amt, next),
                         fmt, sel, i + 1, next + 1)
    ELSE Duplicated(tbl, fmt, sel, i + 1, next)

\* duplicate_selected: it does not call recompute_dynamic_closing
duplicate_selected(sel) ==
    /\ sel # {}
    /\ Len(table) + Cardinality(sel) <= MaxRows
    /\ _undo_stack' = PushedUndo
    /\ _redo_stack' = <<>>
    /\ _next_row_id' = _next_row_id + Cardinality(sel)
    /\ table' = Settled(Duplicated(table, display_fmt, sel, 1, _next_row_id))
    /\ _updating' = FALSE
    /\ UNCHANGED coreVars
    /\ UNCHANGED <<opening, target_closing, date, dynamic_closing, auto_sort, display_fmt>>

\* move_selected(delta) for the one selected row r
move_selected(r, delta) ==
    /\ ~auto_sort
    /\ r + delta \in DOMAIN table
    /\ _undo_stack' = PushedUndo
    /\ _redo_stack' = <<>>
    /\ table' = update_running_balances(
                    [table EXCEPT ![r] = table[r + delta], ![r + delta] = table[r]], opening)
    /\ dynamic_closing' = DynamicClosing(
                    [table EXCEPT ![r] = table[r + delta], ![r + delta] = table[r]], opening)
    /\ _updating' = FALSE
    /\ UNCHANGED coreVars
    /\ UNCHANGED <<_next_row_id, opening, target_closing, date, auto_sort, display_fmt>>

\* clear_table; yes is the answer to the confirmation
clear_table(yes) ==
    /\ table # <<>>
    /\ IF ~yes THEN
            /\ UNCHANGED coreVars
            /\ UNCHANGED <<table, _next_row_id, _undo_stack, _redo_stack, _updating, opening,
                           target_closing, date, dynamic_closing, auto_sort, display_fmt>>
       ELSE
            /\ _undo_stack' = PushedUndo
            /\ _redo_stack' = <<>>
            /\ table' = <<>>
            /\ dynamic_closing' = DynamicClosing(<<>>, opening)
            /\ _updating' = FALSE
            /\ UNCHANGED coreVars
            /\ UNCHANGED <<_next_row_id, opening, target_closing, date, auto_sort, display_fmt>>

\* the rows of a snapshot put back through insert_row
RECURSIVE RestoredRows(_, _, _)
RestoredRows(tbl, fmt, rows) ==
    IF rows = <<>> THEN tbl
    ELSE RestoredRows(insert_row(tbl, fmt, Head(rows).date, Head(rows).description,
                                 Head(rows).category, Head(rows).amount, Head(rows).id),
                      fmt, Tail(rows))

\* int(state.get("next_row_id", 1) or 1)
RestoredNextId(state) == IF state.next_row_id = 0 THEN 1 ELSE state.next_row_id

\* restore_state(state), as undo and redo call it
restore_state(state) ==
    LET tbl == sort_by_date_if_enabled(RestoredRows(<<>>, display_fmt, state.rows),
                                       auto_sort, display_fmt, state.opening)
    IN  /\ opening' = state.opening
        /\ target_closing' = state.target
        /\ date' = state.current_date
        /\ _next_row_id' = RestoredNextId(state)
        /\ table' = tbl
        /\ dynamic_closing' = DynamicClosing(tbl, state.opening)
        /\ _updating' = FALSE

undo ==
    /\ Len(_undo_stack) >= 2
    /\ _redo_stack' = Append(_redo_stack, _undo_stack[Len(_undo_stack)])
    /\ _undo_stack' = SubSeq(_undo_stack, 1, Len(_undo_stack) - 1)
    /\ restore_state(_undo_stack[Len(_undo_stack) - 1])
    /\ UNCHANGED coreVars
    /\ UNCHANGED <<auto_sort, display_fmt>>

redo ==
    /\ _redo_stack # <<>>
    /\ _undo_stack' = Append(_undo_stack, _redo_stack[Len(_redo_stack)])
    /\ _redo_stack' = SubSeq(_redo_stack, 1, Len(_redo_stack) - 1)
    /\ restore_state(_redo_stack[Len(_redo_stack)])
    /\ UNCHANGED coreVars
    /\ UNCHANGED <<auto_sort, display_fmt>>

\* self.target_closing.textChanged -> recompute_dynamic_closing
TypeTarget(txt) ==
    /\ target_closing # txt
    /\ target_closing' = txt
    /\ dynamic_closing' = DynamicClosing(table, opening)
    /\ table' = update_running_balances(table, opening)
    /\ _updating' = FALSE
    /\ UNCHANGED coreVars
    /\ UNCHANGED <<_next_row_id, _undo_stack, _redo_stack, opening, date, auto_sort, display_fmt>>

\* refresh_date_display, as the display format box calls it when fmt is chosen
refresh_date_display(tbl, fmt) ==
    [r \in DOMAIN tbl |->
        LET canon == IF tbl[r].date # <<>> THEN tbl[r].date ELSE NormalizedDate(tbl[r].text)
        IN  IF canon # <<>>
            THEN [tbl[r] EXCEPT !.date = canon, !.text = canonical_to_display_date(fmt, canon)]
            ELSE tbl[r]]

ChooseDisplayFormat(fmt) ==
    /\ display_fmt # fmt
    /\ display_fmt' = fmt
    /\ table' = refresh_date_display(table, fmt)
    /\ _updating' = FALSE
    /\ UNCHANGED coreVars
    /\ UNCHANGED <<_next_row_id, _undo_stack, _redo_stack, opening, target_closing, date,
                   dynamic_closing, auto_sort>>

\* the text that the cell of column c of row shows
CellText(row, c) ==
    CASE c = "date" -> row.text
      [] c = "desc" -> row.desc
      [] c = "category" -> row.cat
      [] c = "amount" -> row.amt

\* on_item_changed after the operator has put txt in the cell of column c of row r
on_item_changed(r, c, txt) ==
    LET d == display_to_canonical_date(display_fmt, txt)
        amt == ParsedAmount(txt)
        edited ==
            CASE c = "date" ->
                    IF d # <<>>
                    THEN [table[r] EXCEPT !.date = d,
                                          !.text = canonical_to_display_date(display_fmt, d)]
                    ELSE [table[r] EXCEPT !.text = txt]
              [] c = "desc" -> [table[r] EXCEPT !.desc = txt]
              [] c = "category" -> [table[r] EXCEPT !.cat = txt]
              [] c = "amount" -> [table[r] EXCEPT !.amt = IF amt.ok THEN Format2(amt) ELSE txt]
        tbl1 == [table EXCEPT ![r] = edited]
        tbl == IF c = "date" THEN Settled(tbl1) ELSE update_running_balances(tbl1, opening)
    IN  /\ r \in DOMAIN table
        /\ txt # CellText(table[r], c)
        /\ UNCHANGED coreVars
        /\ IF _updating THEN
                /\ table' = [table EXCEPT ![r] =
                                CASE c = "date" -> [@ EXCEPT !.text = txt]
                                  [] c = "desc" -> [@ EXCEPT !.desc = txt]
                                  [] c = "category" -> [@ EXCEPT !.cat = txt]
                                  [] c = "amount" -> [@ EXCEPT !.amt = txt]]
                /\ UNCHANGED <<_next_row_id, _undo_stack, _redo_stack, _updating, opening,
                               target_closing, date, dynamic_closing, auto_sort, display_fmt>>
           ELSE IF c = "amount" /\ ~amt.ok THEN
                /\ table' = tbl1
                /\ UNCHANGED <<_next_row_id, _undo_stack, _redo_stack, _updating, opening,
                               target_closing, date, dynamic_closing, auto_sort, display_fmt>>
           ELSE
                /\ table' = tbl
                /\ dynamic_closing' = DynamicClosing(tbl, opening)
                /\ UNCHANGED <<_next_row_id, _undo_stack, _redo_stack, _updating, opening,
                               target_closing, date, auto_sort, display_fmt>>

\* apply_selected_edit with row r the one selected row and the four edit fields
apply_selected_edit(r, date_txt, desc_txt, category_txt, amount_txt) ==
    LET d == display_to_canonical_date(display_fmt, date_txt)
        amt == ParsedAmount(amount_txt)
        tbl == Settled([table EXCEPT ![r] =
                    [@ EXCEPT !.date = d,
                              !.text = canonical_to_display_date(display_fmt, d),
                              !.desc = norm_spaces(desc_txt),
                              !.cat = norm_spaces(category_txt),
                              !.amt = Format2(amt)]])
    IN  /\ r \in DOMAIN table
        /\ UNCHANGED coreVars
        /\ IF d = <<>> \/ ~amt.ok THEN
                /\ UNCHANGED <<table, _next_row_id, _undo_stack, _redo_stack, _updating, opening,
                               target_closing, date, dynamic_closing, auto_sort, display_fmt>>
           ELSE
                /\ _undo_stack' = PushedUndo
                /\ _redo_stack' = <<>>
                /\ table' = tbl
                /\ dynamic_closing' = DynamicClosing(tbl, opening)
                /\ _updating' = FALSE
                /\ UNCHANGED <<_next_row_id, opening, target_closing, date, auto_sort, display_fmt>>

\* A session file: readable tells that the file opens and holds a JSON
\* object; next_row_id is 0 where the key is missing, null or 0.  A row is an
\* object (dict) or a list of len elements; id is 0 where the key is missing,
\* null or 0, id_ok is FALSE where int() rejects what the key holds.
FileRow(isdict, n, id_ok, id, d, desc, amt) ==
    [dict |-> isdict, len |-> n, id_ok |-> id_ok, id |-> id, date |-> d,
     description |-> desc, category |-> <<>>, amount |-> amt]

Date10 == <<"2", "0", "2", "5", "/", "0", "1", "/", "1", "0">>
Date02 == <<"2", "0", "2", "5", "-", "0", "1", "-", "0", "2">>

\* a file that cannot be read, a file whose second row takes the id that the
\* first was given, a file whose third row is a list of two elements, and a
\* file of a row without a date, a row without a description and a row whose
\* amount does not parse
SessionFiles ==
    { [readable |-> FALSE, opening |-> <<>>, target_closing |-> <<>>, current_date |-> <<>>,
       display_format |-> "", next_row_id |-> 0, rows |-> <<>>],
      [readable |-> TRUE, opening |-> <<"1", ".", "0", "0", "5">>, target_closing |-> <<>>,
       current_date |-> Date10, display_format |-> "DD/MM/YYYY", next_row_id |-> 0,
       rows |-> << FileRow(FALSE, 3, TRUE, 0, Date10, <<"a">>, <<"-", "3", ".", "5", "0">>),
                   FileRow(TRUE, 0, TRUE, 1, Date02, <<"b">>, <<"1", ".", "0", "0", "5">>) >>],
      [readable |-> TRUE, opening |-> <<>>, target_closing |-> <<>>,
       current_date |-> <<>>, display_format |-> "", next_row_id |-> 0,
       rows |-> << FileRow(TRUE, 0, TRUE, 2, <<"x">>, <<"a">>, <<"-", "3", ".", "5", "0">>),
                   FileRow(TRUE, 0, TRUE, 1, Date02, <<"b">>, <<"1", ".", "0", "0", "5">>),
                   FileRow(FALSE, 2, TRUE, 0, <<>>, <<>>, <<>>) >>],
      [readable |-> TRUE, opening |-> <<>>, target_closing |-> <<>>,
       current_date |-> <<>>, display_format |-> "DD/MM/YYYY", next_row_id |-> 0,
       rows |-> << FileRow(TRUE, 0, TRUE, 0, <<>>, <<"a">>, <<"-", "3", ".", "5", "0">>),
                   FileRow(TRUE, 0, TRUE, 0, Date02, <<>>, <<"1", ".", "0", "0", "5">>),
                   FileRow(TRUE, 0, TRUE, 0, Date10, <<"a">>, <<"x">>) >>] }

\* int(row.get("id", 0) or 0) and the unpacking d, desc, amt = row raise ValueError
RowRaises(row) == IF row.dict THEN ~row.id_ok ELSE row.len # 3

Max(a, b) == IF a >= b THEN a ELSE b

\* lines 1000-1026: the rows of the file put in the table one by one until one
\* raises; st is [tbl, max_id, raised]
RECURSIVE LoadRows(_, _, _)
LoadRows(st, fmt, rows) ==
    IF rows = <<>> THEN st
    ELSE IF RowRaises(Head(rows)) THEN [st EXCEPT !.raised = TRUE]
    ELSE LET row == Head(rows)
             raw_id == IF row.dict THEN row.id ELSE 0
             nd == NormalizedDate(row.date)
             d2 == IF nd # <<>> THEN nd ELSE row.date
             amt2 == AmountOrZero(row.amount)
             row_id == IF raw_id > 0 THEN raw_id ELSE st.max_id + 1
         IN  LoadRows([tbl |-> insert_row(st.tbl, fmt, d2, row.description, row.category,
                                          Format2(amt2), row_id),
                       max_id |-> Max(st.max_id, row_id),
                       raised |-> FALSE],
                      fmt, Tail(rows))

\* lines 1011-1018: the strict_issues that the loop collects from row idx on,
\* each given by the number of its row and what is invalid in it
RECURSIVE StrictIssuesFrom(_, _)
StrictIssuesFrom(rows, idx) ==
    IF idx > Len(rows) THEN <<>>
    ELSE (IF NormalizedDate(rows[idx].date) = <<>>
          THEN <<[row |-> idx, issue |-> "invalid date"]>> ELSE <<>>)
         \o (IF ~ParsedAmount(rows[idx].amount).ok
             THEN <<[row |-> idx, issue |-> "invalid amount"]>> ELSE <<>>)
         \o StrictIssuesFrom(rows, idx + 1)

\* lines 1036-1037: the strict-load warnings that load_session shows; a row
\* that raises takes the load to the except clause, which shows none
LoadWarnings(rows) ==
    IF \E i \in DOMAIN rows : RowRaises(rows[i]) THEN <<>> ELSE StrictIssuesFrom(rows, 1)

\* load_session(path) where path holds the file
load_session(file) ==
    LET fmt == IF file.display_format \in DisplayFormats THEN file.display_format
               ELSE display_fmt
        st == LoadRows([tbl |-> <<>>, max_id |-> 0, raised |-> FALSE], fmt, file.rows)
        file_next == IF file.next_row_id = 0 THEN st.max_id + 1 ELSE file.next_row_id
        next == Max(file_next, st.max_id + 1)
        tbl == sort_by_date_if_enabled(st.tbl, auto_sort, fmt, file.opening)
    IN  /\ UNCHANGED coreVars
        /\ IF ~file.readable THEN
                /\ UNCHANGED <<table, _next_row_id, _undo_stack, _redo_stack, _updating, opening,
                               target_closing, date, dynamic_closing, auto_sort, display_fmt>>
           ELSE IF st.raised THEN
                /\ opening' = file.opening
                /\ target_closing' = file.target_closing
                /\ date' = file.current_date
                /\ display_fmt' = fmt
                /\ dynamic_closing' =
                       IF file.opening # opening \/ file.target_closing # target_closing
                       THEN DynamicClosing(table, file.opening) ELSE dynamic_closing
                /\ _updating' = TRUE
                /\ table' = st.tbl
                /\ UNCHANGED <<_next_row_id, _undo_stack, _redo_stack, auto_sort>>
           ELSE
                /\ opening' = file.opening
                /\ target_closing' = file.target_closing
                /\ date' = file.current_date
                /\ display_fmt' = fmt
                /\ _next_row_id' = next
                /\ _updating' = FALSE
                /\ table' = tbl
                /\ dynamic_closing' = DynamicClosing(tbl, file.opening)
                /\ _undo_stack' = push_undo_snapshot(_undo_stack,
                                      StateOf(file.opening, file.target_closing,
                                              file.current_date, next, tbl))
                /\ _redo_stack' = <<>>
                /\ UNCHANGED auto_sort

\* no session has been saved
NoFile ==
    [readable |-> FALSE, opening |-> <<>>, target_closing |-> <<>>, current_date |-> <<>>,
     display_format |-> "", next_row_id |-> 0, rows |-> <<>>]

\* save_session, lines 956-965: the i-th row of get_rows(strict=False) with
\* the id of the i-th row of the table
SavedRows(tbl) ==
    LET rows == get_rows(tbl, FALSE).out IN
    [i \in DOMAIN rows |->
        [dict |-> TRUE, len |-> 0, id_ok |-> TRUE, id |-> tbl[i].id,
         date |-> rows[i].date, description |-> rows[i].description,
         category |-> rows[i].category, amount |-> Format2(money2(rows[i].amount))]]

\* the data that save_session writes
SessionData ==
    [readable |-> TRUE, opening |-> Strip(opening), target_closing |-> Strip(target_closing),
     current_date |-> Strip(date), display_format |-> display_fmt,
     next_row_id |-> _next_row_id, rows |-> SavedRows(table)]

\* save_session with a path chosen in the dialog and the file written
save_session ==
    /\ disk' = SessionData
    /\ UNCHANGED coreVars
    /\ UNCHANGED <<table, _next_row_id, _undo_stack, _redo_stack, _updating, opening,
                   target_closing, date, dynamic_closing, auto_sort, display_fmt>>

----------------------------------------------------------------------------
(* local-react-sqlite/backend/main.py: the REST backend                    *)
(*                                                                         *)
(* A handler declared with def runs in a worker thread of the server, each *)
(* request on a connection of its own (db_conn).  A step of the model is   *)
(* one SQL statement, or the end of the with block.  sqlite3 opens a       *)
(* transaction before an INSERT, UPDATE or DELETE and not before a SELECT; *)
(* the statement takes the write lock of the database file, which the      *)
(* connection keeps until it commits.  A connection that finds the lock    *)
(* taken waits for it; the timeout of that wait is left out.  The other    *)
(* connections read the committed rows.  Amount literals with an exponent, *)
(* an underscore or Infinity are not among the inputs.                     *)

\* the formats of the backend's normalize_date, in its order
BackendDateFormats ==
    << [dirs |-> <<"Y", "m", "d">>, sep |-> "/"],
       [dirs |-> <<"Y", "m", "d">>, sep |-> "-"],
       [dirs |-> <<"d", "m", "Y">>, sep |-> "/"],
       [dirs |-> <<"m", "d", "Y">>, sep |-> "/"] >>

\* the loop of the backend's normalize_date from the i-th format on;
\* ok = FALSE stands for ValueError("Invalid date format")
RECURSIVE BackendFirstFormat(_, _)
BackendFirstFormat(s, i) ==
    IF i > Len(BackendDateFormats) THEN [ok |-> FALSE, text |-> <<>>]
    ELSE LET dt == strptime(s, BackendDateFormats[i].dirs, BackendDateFormats[i].sep)
         IN  IF dt.ok THEN [ok |-> TRUE, text |-> strftime(dt)]
             ELSE BackendFirstFormat(s, i + 1)

\* normalize_date of main.py
backend_normalize_date(value) == BackendFirstFormat(Strip(value), 1)

\* Decimal(cleaned) is a quiet NaN
IsNaN(cleaned) ==
    LET t == IF cleaned # <<>> /\ cleaned[1] \in {"-", "+"} THEN Tail(cleaned) ELSE cleaned
    IN  /\ Len(t) = 3
        /\ t[1] \in {"n", "N"}
        /\ t[2] \in {"a", "A"}
        /\ t[3] \in {"n", "N"}

\* normalize_amount; ok = FALSE stands for ValueError("Invalid amount").
\* quantize gives a quiet NaN back as it is, and str writes it NaN.
normalize_amount(value) ==
    LET cleaned == Replace(Strip(value), ",", <<>>)
        dec == money2(DecimalOf(cleaned))
    IN  IF IsNaN(cleaned)
        THEN [ok |-> TRUE,
              text |-> (IF cleaned[1] = "-" THEN <<"-">> ELSE <<>>) \o <<"N", "a", "N">>]
        ELSE IF dec.ok THEN [ok |-> TRUE, text |-> Format2(dec)]
        ELSE [ok |-> FALSE, text |-> <<>>]

\* the values that INSERT and UPDATE bind, for a payload that passed the checks
BoundRow(id, payload) ==
    [id |-> id,
     date |-> backend_normalize_date(payload.date).text,
     description |-> Strip(payload.description),
     category |-> Strip(payload.category),
     amount |-> normalize_amount(payload.amount).text,
     verified |-> payload.verified,
     review_note |-> Strip(payload.review_note)]

\* fetchone() where the SELECT finds no row
NoRow == [id |-> 0]

\* a worker thread that serves no request
Idle ==
    [handler |-> "none", tx_id |-> 0, payload |-> <<>>, at |-> "idle",
     conn |-> <<>>, row |-> NoRow, rowcount |-> 0, status |-> 0, body |-> NoRow]

MaxWorkers == 2
MaxRequests == 3
MaxTxId == 2

Workers == 1..MaxWorkers

\* the request bodies: two that pass the checks, one with a date and one with
\* an amount that does not parse, and one with the amount NaN
BackendDate10 == <<"2", "0", "2", "5", "-", "0", "1", "-", "1", "0">>
Payload(d, desc, amt) ==
    [date |-> d, description |-> desc, category |-> <<>>, amount |-> amt,
     verified |-> FALSE, review_note |-> <<>>]
Payloads ==
    { Payload(BackendDate10, <<" ", "a">>, <<"1", ",", "2", "3", "4", ".", "5">>),
      Payload(<<"0", "1", "/", "1", "3", "/", "2", "0", "2", "5">>, <<"b">>,
              <<"1", ".", "0", "0", "5">>),
      Payload(<<"x">>, <<"a">>, <<"1", ".", "0", "0", "5">>),
      Payload(BackendDate10, <<"a">>, <<"x">>),
      Payload(BackendDate10, <<"a">>, <<"N", "a", "N">>) }

\* startup(): the table is created empty
InitBackend ==
    /\ transactions = <<>>
    /\ sequence = 0
    /\ writer = 0
    /\ request = [w \in Workers |-> Idle]
    /\ received = 0

\* what the handlers leave alone
BackendFrame == UNCHANGED coreVars /\ UNCHANGED ledgerVars

\* the server hands a request to a worker thread that is free
Receive(w, handler, tx_id, payload) ==
    /\ request[w].at \in {"idle", "done"}
    /\ received < MaxRequests
    /\ received' = received + 1
    /\ request' = [request EXCEPT ![w] =
                      [Idle EXCEPT !.handler = handler, !.tx_id = tx_id, !.payload = payload,
                                   !.at = IF handler = "delete_transaction" THEN "delete"
                                          ELSE "validate"]]
    /\ UNCHANGED <<transactions, sequence, writer>>
    /\ BackendFrame

\* the response: the status and, for 200, the body
Respond(w, status, body) ==
    request' = [request EXCEPT ![w].at = "done", ![w].status = status, ![w].body = body]

\* create_transaction and update_transaction, the try block (lines 113-117,
\* 140-144)
Validate(w) ==
    LET r == request[w] IN
    /\ r.at = "validate"
    /\ IF backend_normalize_date(r.payload.date).ok /\ normalize_amount(r.payload.amount).ok
       THEN request' = [request EXCEPT ![w].at =
                           IF r.handler = "create_transaction" THEN "insert" ELSE "exists"]
       ELSE Respond(w, 400, NoRow)
    /\ UNCHANGED <<transactions, sequence, writer, received>>
    /\ BackendFrame

\* the rows as the connection of worker w reads them: its own uncommitted
\* writes where it has a transaction open, the committed rows otherwise
RowsOf(w) == IF writer = w THEN request[w].conn ELSE transactions

\* conn.execute("SELECT ... WHERE id = ?").fetchone()
FetchOne(w, id) == IF id \in DOMAIN RowsOf(w) THEN RowsOf(w)[id] ELSE NoRow

\* update_transaction, lines 147-149: the SELECT runs outside a transaction;
\* HTTPException leaves the with block without a commit
SelectExists(w) ==
    LET r == request[w] IN
    /\ r.at = "exists"
    /\ IF FetchOne(w, r.tx_id) = NoRow
       THEN Respond(w, 404, NoRow)
       ELSE request' = [request EXCEPT ![w].at = "update"]
    /\ UNCHANGED <<transactions, sequence, writer, received>>
    /\ BackendFrame

\* update_transaction, lines 150-165: the UPDATE opens the transaction and
\* writes the row where the id is in the table
Update(w) ==
    LET r == request[w] IN
    /\ r.at = "update"
    /\ writer = 0
    /\ writer' = w
    /\ request' = [request EXCEPT
           ![w].conn = IF r.tx_id \in DOMAIN transactions
                       THEN [transactions EXCEPT ![r.tx_id] = BoundRow(r.tx_id, r.payload)]
                       ELSE transactions,
           ![w].at = "select"]
    /\ UNCHANGED <<transactions, sequence, received>>
    /\ BackendFrame

\* create_transaction, lines 120-133: the INSERT opens the transaction; the
\* new id is one more than the last that was given out
Insert(w) ==
    LET r == request[w]
        id == sequence + 1
    IN  /\ r.at = "insert"
        /\ writer = 0
        /\ writer' = w
        /\ sequence' = id
        /\ request' = [request EXCEPT
               ![w].conn = (id :> BoundRow(id, r.payload)) @@ transactions,
               ![w].tx_id = id,
               ![w].at = "select"]
        /\ UNCHANGED <<transactions, received>>
        /\ BackendFrame

\* lines 134 and 166: the row is read back on the same connection
SelectRow(w) ==
    LET r == request[w] IN
    /\ r.at = "select"
    /\ request' = [request EXCEPT ![w].row = FetchOne(w, r.tx_id), ![w].at = "commit"]
    /\ UNCHANGED <<transactions, sequence, writer, received>>
    /\ BackendFrame

\* delete_transaction, line 173: the DELETE opens the transaction
Delete(w) ==
    LET r == request[w] IN
    /\ r.at = "delete"
    /\ writer = 0
    /\ writer' = w
    /\ request' = [request EXCEPT
           ![w].conn = [id \in DOMAIN transactions \ {r.tx_id} |-> transactions[id]],
           ![w].rowcount = IF r.tx_id \in DOMAIN transactions THEN 1 ELSE 0,
           ![w].at = "commit"]
    /\ UNCHANGED <<transactions, sequence, received>>
    /\ BackendFrame

\* row_to_dict(row): ok = FALSE stands for the TypeError that row["id"] raises
\* where row is None
row_to_dict(row) == [ok |-> row # NoRow, dict |-> row]

\* the end of the with block (db_conn, lines 45-47: commit and close) and the
\* lines of the handler after it: the handler returns the row, or answers
\* 404 for a DELETE that found no row; an exception that is not an
\* HTTPException is answered with status 500
Commit(w) ==
    LET r == request[w] IN
    /\ r.at = "commit"
    /\ writer = w
    /\ writer' = 0
    /\ transactions' = r.conn
    /\ IF r.handler = "delete_transaction"
       THEN IF r.rowcount = 0 THEN Respond(w, 404, NoRow) ELSE Respond(w, 200, NoRow)
       ELSE IF row_to_dict(r.row).ok THEN Respond(w, 200, row_to_dict(r.row).dict)
       ELSE Respond(w, 500, NoRow)
    /\ UNCHANGED <<sequence, received>>
    /\ BackendFrame

TxIds == 1..MaxTxId

ReceiveCreate ==
    \E w \in Workers : \E p \in Payloads : Receive(w, "create_transaction", 0, p)
ReceiveUpdate ==
    \E w \in Workers : \E id \in TxIds : \E p \in Payloads :
        Receive(w, "update_transaction", id, p)
ReceiveDelete ==
    \E w \in Workers : \E id \in TxIds : Receive(w, "delete_transaction", id, <<>>)

NextBackend ==
    \/ ReceiveCreate
    \/ ReceiveUpdate
    \/ ReceiveDelete
    \/ \E w \in Workers : Validate(w)
    \/ \E w \in Workers : SelectExists(w)
    \/ \E w \in Workers : Update(w)
    \/ \E w \in Workers : Insert(w)
    \/ \E w \in Workers : SelectRow(w)
    \/ \E w \in Workers : Delete(w)
    \/ \E w \in Workers : Commit(w)

----------------------------------------------------------------------------
(* The specifications                                                      *)

\* __init__ where there is no last session file: the empty ledger, with the
\* snapshot of it on the undo stack
InitLedger ==
    /\ table = <<>>
    /\ _next_row_id = 1
    /\ _undo_stack = <<StateOf(<<>>, <<>>, <<>>, 1, <<>>)>>
    /\ _redo_stack = <<>>
    /\ _updating = FALSE
    /\ opening = <<>>
    /\ target_closing = <<>>
    /\ date = <<>>
    /\ dynamic_closing = <<"0", ".", "0", "0">>
    /\ auto_sort = TRUE
    /\ display_fmt = "YYYY/MM/DD"
    /\ ops = 0
    /\ disk = NoFile
    /\ trace = NoTrace

NoArg == [s |-> <<>>, d |-> [ok |-> TRUE, exc |-> "", neg |-> FALSE, coef |-> 0, scale |-> 0]]

Init ==
    /\ InitLedger
    /\ InitBackend
    /\ memo = CoreOutcomes
    /\ fn = "none" /\ arg = NoArg /\ pc = "idle"
    /\ ret = [ok |-> FALSE, exc |-> "not called", neg |-> FALSE, coef |-> 0, scale |-> 0]

\* what the operator puts in a cell of the table
CellTexts(c) ==
    CASE c = "date" -> { <<"0", "2", "/", "0", "1", "/", "2", "0", "2", "5">>,
                         <<"0", "1", "/", "1", "3", "/", "2", "0", "2", "5">> }
      [] c = "desc" -> { <<"A", " ">> }
      [] c = "category" -> { }
      [] c = "amount" -> { <<"x">> }

Columns == {"date", "desc", "category", "amount"}

Add == Step /\ \E f \in EntryForms, yes \in BOOLEAN : add_current_row(f[1], f[2], f[3], f[4], yes)

ImportPaste == Step /\ \E lines \in Pastes, yes \in BOOLEAN : import_paste(lines, yes)

DeleteSelected == Step /\ \E sel \in SUBSET DOMAIN table, yes \in BOOLEAN : delete_selected(sel, yes)

DuplicateSelected == Step /\ \E sel \in SUBSET DOMAIN table : duplicate_selected(sel)

MoveSelected == Step /\ \E r \in DOMAIN table, delta \in {-1, 1} : move_selected(r, delta)

ClearTable == Step /\ \E yes \in BOOLEAN : clear_table(yes)

EditCell ==
    Step /\ \E r \in DOMAIN table, c \in Columns : \E txt \in CellTexts(c) : on_item_changed(r, c, txt)

ApplySelectedEdit ==
    Step /\ \E r \in DOMAIN table, f \in EntryForms : apply_selected_edit(r, f[1], f[2], f[3], f[4])

TypeOpeningText == Step /\ \E txt \in OpeningTexts : TypeOpening(txt)

TypeTargetText == Step /\ \E txt \in OpeningTexts : TypeTarget(txt)

ChooseFormat == Step /\ \E fmt \in DisplayFormats : ChooseDisplayFormat(fmt)

LoadSession == Step /\ \E file \in SessionFiles : load_session(file)

SaveSession == Ran /\ UNCHANGED trace /\ save_session

Undo == Step /\ undo

Redo == Step /\ redo

\* load_session with the path of the file that save_session wrote
LoadSaved == Step /\ disk.readable /\ load_session(disk)

Next ==
    \/ TypeOpeningText
    \/ TypeTargetText
    \/ ChooseFormat
    \/ ToggleAutoSort
    \/ Add
    \/ ImportPaste
    \/ DeleteSelected
    \/ DuplicateSelected
    \/ MoveSelected
    \/ ClearTable
    \/ EditCell
    \/ ApplySelectedEdit
    \/ Undo
    \/ Redo
    \/ LoadSession

Spec == Init /\ [][Next]_vars

\* the ledger under add, paste import, duplicate, delete, clear, undo and redo only
NextEntry ==
    \/ Add
    \/ ImportPaste
    \/ DuplicateSelected
    \/ DeleteSelected
    \/ ClearTable
    \/ Undo
    \/ Redo

SpecEntry == Init /\ [][NextEntry]_vars

\* the ledger with sessions saved and loaded back
NextSession ==
    \/ Add
    \/ ImportPaste
    \/ DeleteSelected
    \/ EditCell
    \/ LoadSession
    \/ SaveSession
    \/ LoadSaved

SpecSession == Init /\ [][NextSession]_vars

\* The handlers that push an undo snapshot (add, paste import, delete,
\* duplicate, clear, row edit), undo and redo, with trace kept: a handler of
\* the first kind that leaves the ledger as it is counts as no mutation.
TracedMutation ==
    /\ Ran
    /\ UNCHANGED disk
    /\ \/ \E f \in EntryForms, yes \in BOOLEAN : add_current_row(f[1], f[2], f[3], f[4], yes)
       \/ \E lines \in Pastes, yes \in BOOLEAN : import_paste(lines, yes)
       \/ \E sel \in SUBSET DOMAIN table, yes \in BOOLEAN : delete_selected(sel, yes)
       \/ \E sel \in SUBSET DOMAIN table : duplicate_selected(sel)
       \/ \E yes \in BOOLEAN : clear_table(yes)
       \/ \E r \in DOMAIN table, f \in EntryForms :
              apply_selected_edit(r, f[1], f[2], f[3], f[4])
    /\ trace' = [kind |-> IF Ledger' # Ledger THEN "mutation" ELSE "none", ledger |-> Ledger]

TracedUndo == Ran /\ UNCHANGED disk /\ undo /\ trace' = [kind |-> "undo", ledger |-> Ledger]

TracedRedo == Ran /\ UNCHANGED disk /\ redo /\ trace' = [kind |-> "redo", ledger |-> Ledger]

NextUndo ==
    \/ TracedMutation
    \/ TracedUndo
    \/ TracedRedo

SpecUndo == Init /\ [][NextUndo]_vars

\* the backend after startup, with the front end not running
InitBackendAlone ==
    /\ InitBackend
    /\ InitLedger
    /\ memo = <<>>
    /\ fn = "none" /\ arg = NoArg /\ pc = "idle"
    /\ ret = [ok |-> FALSE, exc |-> "not called", neg |-> FALSE, coef |-> 0, scale |-> 0]

SpecBackend == InitBackendAlone /\ [][NextBackend]_vars

----------------------------------------------------------------------------
(* Inputs of the pure-function harness                                     *)

MaxLen == 4
MaxCoef == 1100
MaxScale == 4

AmountAlphabet == {"1", "5", "-", ",", ".", "$", " "}

RECURSIVE TextsUpTo(_, _)
TextsUpTo(A, n) ==
    IF n = 0 THEN {<<>>}
    ELSE LET shorter == TextsUpTo(A, n - 1)
         IN  shorter \cup {Append(t, c) : t \in {u \in shorter : Len(u) = n - 1}, c \in A}

\* the amounts of src/tests/test_core.py and of the specification's examples
AmountExamples ==
    { <<"1", ",", "2", "3", "4", ".", "5", "6">>,
      <<"1", ".", "2", "3", "4", ",", "5", "6">>,
      <<"$", " ", "-", "9", "9", ".", "9">>,
      <<"1", ",", "2", "3", "4", ",", "5", "6", "7">>,
      <<"1", ".", "2", ",", "3", ",", "4">>,
      <<"nbsp">>, <<"\t", " ">>, <<"a", "b", "c">>,
      <<"nbsp", "1", ",", "5", "\t">> }

AmountInputs == TextsUpTo(AmountAlphabet, MaxLen) \cup AmountExamples

DecimalInputs ==
    {Dec(n, c, k) : n \in BOOLEAN, c \in 0..MaxCoef, k \in 0..MaxScale}

MaxLineFields == 4

\* the fields that the lines of the harness are made of
DateFields ==
    { <<"2", "0", "2", "5", "-", "0", "1", "-", "1", "0">>,
      <<"0", "1", "/", "1", "1", "/", "2", "0", "2", "5">>,
      <<"3", "1", ".", "0", "2", ".", "2", "5">>,
      <<"0", "9", "9", "9", "-", "1", "2", "-", "3", "1">>,
      <<"x">> }

DescFields ==
    { <<"a">>, <<"a", " ", "b">>, <<"\"", "a", ",", "b", "\"">> }

AmountFields ==
    { <<"-", "3", ".", "5", "0">>, <<"1", "2", "0", "0">>, <<"1", "-", "2">>,
      <<"1", ",", "5">>, <<"1", ".", "0", "0", "5">> }

FieldSeparators == { <<",">>, <<"\t">>, <<" ", " ">>, <<" ">>, <<"\t", " ">> }

RECURSIVE JoinWith(_, _)
JoinWith(fields, sep) ==
    IF fields = <<>> THEN <<>>
    ELSE IF Len(fields) = 1 THEN fields[1]
    ELSE fields[1] \o sep \o JoinWith(Tail(fields), sep)

\* a line of n fields: a date, n - 2 descriptions and an amount (n = 1: the date
\* alone), joined by sep
LineFields(n, d, desc, amt, sep) ==
    JoinWith(<<d>> \o (IF n > 2 THEN [i \in 1..(n - 2) |-> desc] ELSE <<>>)
                  \o (IF n >= 2 THEN <<amt>> ELSE <<>>), sep)

LineInputs ==
    { <<>>, <<" ", "\t">> } \cup
    { LineFields(n, d, desc, amt, sep) :
        n \in 1..MaxLineFields, d \in DateFields, desc \in DescFields,
        amt \in AmountFields, sep \in FieldSeparators }

\* the numbers that the dates of the harness are made of
DateNumbers ==
    { <<"1">>, <<"0", "2">>, <<"1", "2">>, <<"1", "3">>, <<"2", "9">>, <<"3", "1">>,
      <<"3", "2">>, <<"0", "0">>, <<"6", "9">>, <<" ", "5">>,
      <<"2", "0", "2", "4">>, <<"2", "0", "2", "5">>, <<"0", "0", "0", "5">>,
      <<"0", "9", "9", "9">> }

DateSeparators == { <<"/">>, <<"-">>, <<".">>, <<>> }

DateInputs ==
    { <<>>, <<"x">>, <<"nbsp", "2", "0", "2", "5", "/", "1", "/", "5", "\t">>,
      <<"2", "0", "2", "5", "/", "0", "1", "/", "0", "5", "/">>,
      <<"2", "0", "2", "5", "/", "0", "1", "-", "0", "5">>,
      <<"2", "0", "2", "5", " ", "/", "0", "1", "/", "0", "5">> } \cup
    { JoinWith(<<a, b, c>>, sep) :
        a \in DateNumbers, b \in DateNumbers, c \in DateNumbers, sep \in DateSeparators }

TextAlphabet == {"a", "B", " ", "\t", "nbsp"}

NoRet == [ok |-> FALSE, exc |-> "not called", neg |-> FALSE, coef |-> 0, scale |-> 0]

InitCore ==
    /\ \/ fn = "parse_decimal" /\ arg \in {[s |-> t, d |-> DecZero] : t \in AmountInputs}
       \/ fn = "money2" /\ arg \in {[s |-> <<>>, d |-> x] : x \in DecimalInputs}
       \/ fn = "normalize_date" /\ arg \in {[s |-> t, d |-> DecZero] : t \in DateInputs}
       \/ fn = "norm_spaces" /\ arg \in {[s |-> t, d |-> DecZero] : t \in TextsUpTo(TextAlphabet, MaxLen)}
       \/ fn = "try_parse_line" /\ arg \in {[s |-> t, d |-> DecZero] : t \in LineInputs}
    /\ ret = NoRet
    /\ pc = "call"
    /\ InitLedger
    /\ InitBackend
    /\ memo = <<>>

CallParseDecimal ==
    /\ fn = "parse_decimal" /\ pc = "call"
    /\ ret' = parse_decimal(arg.s)
    /\ pc' = "done"
    /\ UNCHANGED <<fn, arg>>
    /\ UNCHANGED ledgerVars
    /\ UNCHANGED backendVars

CallMoney2 ==
    /\ fn = "money2" /\ pc = "call"
    /\ ret' = money2(arg.d)
    /\ pc' = "done"
    /\ UNCHANGED <<fn, arg>>
    /\ UNCHANGED ledgerVars
    /\ UNCHANGED backendVars

CallTryParseLine ==
    /\ fn = "try_parse_line" /\ pc = "call"
    /\ ret' = try_parse_line(arg.s)
    /\ pc' = "done"
    /\ UNCHANGED <<fn, arg>>
    /\ UNCHANGED ledgerVars
    /\ UNCHANGED backendVars

CallNormalizeDate ==
    /\ fn = "normalize_date" /\ pc = "call"
    /\ ret' = normalize_date(arg.s)
    /\ pc' = "done"
    /\ UNCHANGED <<fn, arg>>
    /\ UNCHANGED ledgerVars
    /\ UNCHANGED backendVars

CallNormSpaces ==
    /\ fn = "norm_spaces" /\ pc = "call"
    /\ ret' = norm_spaces(arg.s)
    /\ pc' = "done"
    /\ UNCHANGED <<fn, arg>>
    /\ UNCHANGED ledgerVars
    /\ UNCHANGED backendVars

NextCore ==
    \/ CallParseDecimal
    \/ CallMoney2
    \/ CallNormSpaces
    \/ CallNormalizeDate
    \/ CallTryParseLine

SpecCore == InitCore /\ [][NextCore]_vars

----------------------------------------------------------------------------
(* Claims about parse_decimal and money2, checked under SpecCore           *)

Called(f) == fn = f /\ pc = "done"

\* the number the digits of s spell, read left to right, other characters skipped
RECURSIVE DigitsValue(_)
DigitsValue(s) ==
    IF s = <<>> THEN 0
    ELSE IF s[Len(s)] \in Digits
         THEN 10 * DigitsValue(SubSeq(s, 1, Len(s) - 1)) + DigitVal(s[Len(s)])
         ELSE DigitsValue(SubSeq(s, 1, Len(s) - 1))

\* the last position of s that holds ',' or '.', 0 when there is none
LastSeparator(s) ==
    IF \E i \in DOMAIN s : s[i] \in {",", "."}
    THEN CHOOSE i \in DOMAIN s : s[i] \in {",", "."} /\ \A j \in DOMAIN s : j > i => s[j] \notin {",", "."}
    ELSE 0

\* s read with its last separator as the decimal point: every occurrence of that
\* character is a point, every occurrence of the other one is dropped
LastSeparatorReading(s) ==
    LET p == LastSeparator(s) IN
    IF p = 0 THEN s
    ELSE [i \in 1..Len(SelectChars(s, (Digits \cup {"-"}) \cup {s[p]})) |->
            LET c == SelectChars(s, (Digits \cup {"-"}) \cup {s[p]})[i]
            IN  IF c \in {",", "."} THEN "." ELSE c]

\* a signed decimal literal, by counting: at most one sign and only in first
\* position, at most one point, at least one digit, nothing else
ValidLiteral(s) ==
    /\ \A i \in DOMAIN s : s[i] \in Digits \cup {"-", "."}
    /\ Count(s, "-") <= 1
    /\ \A i \in DOMAIN s : s[i] = "-" => i = 1
    /\ Count(s, ".") <= 1
    /\ \E i \in DOMAIN s : s[i] \in Digits

\* C7: parse_decimal reads the separator (',' or '.') that occurs last as the
\* decimal point and drops every occurrence of the other one: the outcome is that
\* of the literal so rewritten, and when the rewritten text is a well-formed
\* literal the value has all the digits of the input as coefficient and as many
\* fractional digits as follow the last separator; '1,234.56' and '1.234,56' are
\* 1234.56 and a lone ',' is the decimal point.
C7_LastSeparatorIsDecimalPoint ==
    (Called("parse_decimal") /\ Strip(arg.s) # <<>>) =>
        LET t == SelectChars(arg.s, NumberSymbols)
            p == LastSeparator(t)
        IN  /\ ret = DecimalOf(LastSeparatorReading(t))
            /\ ValidLiteral(LastSeparatorReading(t)) =>
                  /\ ret.ok
                  /\ ret.coef = DigitsValue(t)
                  /\ ret.scale = (IF p = 0 THEN 0
                                  ELSE Cardinality({i \in DOMAIN t : i > p /\ t[i] \in Digits}))
                  /\ ret.neg = (LastSeparatorReading(t)[1] = "-")

C7_Witness ==
    /\ Called("parse_decimal")
    /\ arg.s = <<"1", ".", "2", "3", "4", ",", "5", "6">>
    /\ ret = Dec(FALSE, 123456, 2)

\* C8: parse_decimal returns zero for an empty or white-space-only string, and
\* raises InvalidOperation for every other string whose stripped and rewritten
\* text is not a valid signed decimal literal.
C8_ZeroOnBlankFailsOnInvalid ==
    Called("parse_decimal") =>
        /\ (\A i \in DOMAIN arg.s : IsSpace(arg.s[i])) => ret = DecZero
        /\ ( /\ \E i \in DOMAIN arg.s : ~IsSpace(arg.s[i])
             /\ ~ValidLiteral(LastSeparatorReading(SelectChars(arg.s, NumberSymbols))) )
           => (~ret.ok /\ ret.exc = "InvalidOperation")

C8_Witness ==
    /\ Called("parse_decimal")
    /\ arg.s = <<"1", "-", "5">>
    /\ ~ret.ok /\ ret.exc = "InvalidOperation"

\* C9 as stated: for every string, parse_decimal has the same outcome on the
\* string and on the string with every character other than digits, '-', ','
\* and '.' deleted.
C9_DependsOnlyOnNumberSymbols ==
    Called("parse_decimal") => ret = parse_decimal(SelectChars(arg.s, NumberSymbols))

\* C9 amended: the same, for every string that is blank or holds at least one
\* digit, '-', ',' or '.'; and '$ -99.9' gives -99.9.
C9_DependsOnlyOnNumberSymbolsWhenAny ==
    Called("parse_decimal") =>
        /\ ( \/ \A i \in DOMAIN arg.s : IsSpace(arg.s[i])
             \/ \E i \in DOMAIN arg.s : arg.s[i] \in NumberSymbols )
           => ret = parse_decimal(SelectChars(arg.s, NumberSymbols))
        /\ arg.s = <<"$", " ", "-", "9", "9", ".", "9">> => ret = Dec(TRUE, 999, 1)

C9_Witness ==
    /\ Called("parse_decimal")
    /\ arg.s = <<"$", " ", "-", "9", "9", ".", "9">>
    /\ ret = Dec(TRUE, 999, 1)

\* C10: money2 returns its argument at exactly two fractional digits, the nearest
\* such value, a tie going to the larger magnitude (half-up: away from zero for a
\* negative amount); 1.005 gives 1.01, -1.005 gives -1.01, and an amount that has
\* two fractional digits already is returned unchanged.
C10_Money2HalfUp ==
    Called("money2") =>
        LET d == arg.d
            unit == Pow10(d.scale - 2)
        IN  /\ ret.ok /\ ret.scale = 2 /\ ret.neg = d.neg
            /\ d.scale <= 2 => DecEq(ret, d)
            /\ d.scale = 2 => ret = d
            /\ d.scale > 2 =>
                  /\ 2 * ret.coef * unit <= 2 * d.coef + unit
                  /\ 2 * ret.coef * unit >= 2 * d.coef - unit
                  /\ (2 * (d.coef % unit) = unit) => ret.coef * unit > d.coef
            /\ d = Dec(FALSE, 1005, 3) => ret = Dec(FALSE, 101, 2)
            /\ d = Dec(TRUE, 1005, 3) => ret = Dec(TRUE, 101, 2)

C10_Witness ==
    /\ Called("money2")
    /\ arg.d = Dec(TRUE, 1005, 3)
    /\ ret = Dec(TRUE, 101, 2)

\* C1: try_parse_line never raises: every call ends with a Transaction or None.
C1_TryParseLineNeverRaises ==
    Called("try_parse_line") => ret.kind \in {"Transaction", "None"}

----------------------------------------------------------------------------
(* Claims about the ledger                                                 *)

\* C2: over add, paste import, duplicate, delete, clear, undo and redo (the
\* steps of SpecEntry) the next-id counter never decreases, so that no id is
\* handed out twice.
C2_NextIdNeverDecreases == [][_next_row_id' >= _next_row_id]_vars

\* C3: in every state of the ledger, the state right after load_session
\* included, the rows of the table have pairwise distinct ids and every id is
\* smaller than the next-id counter.
C3_DistinctIdsBelowNextId ==
    /\ \A i, j \in DOMAIN table : i # j => table[i].id # table[j].id
    /\ \A i \in DOMAIN table : table[i].id < _next_row_id

\* money2(parse_decimal(txt)), Decimal("0.00") where that raises
AmountOf(txt) ==
    LET a == money2(parse_decimal(txt)) IN IF a.ok THEN a ELSE Dec(FALSE, 0, 2)

\* the sum of the amounts of the rows, from Decimal("0.00")
RECURSIVE TotalAmount(_)
TotalAmount(tbl) ==
    IF tbl = <<>> THEN Dec(FALSE, 0, 2)
    ELSE DecAdd(TotalAmount(SubSeq(tbl, 1, Len(tbl) - 1)), AmountOf(tbl[Len(tbl)].amt))

\* the rows of tbl in the order p
Reordered(tbl, p) == [i \in DOMAIN tbl |-> tbl[p[i]]]

C5_SortedWhenAutoSort ==
    auto_sort => \A i \in 1..(Len(table) - 1) : ~KeyLess(Keyed(table)[i + 1], Keyed(table)[i])

\* C6: duplicate detection only warns.  A paste import that the operator
\* accepts puts every parseable line in the table, and an entry that the
\* operator does not decline at the duplicate prompt puts its row in the table.
C6_DuplicatesOnlyWarn ==
    [][/\ \A lines \in Pastes :
            import_paste(lines, TRUE) /\ ~Raises(Parsed(lines))
                => Len(table') = Len(table) + Len(PreviewOf(Parsed(lines)))
       /\ \A f \in EntryForms :
            /\ add_current_row(f[1], f[2], f[3], f[4], TRUE)
            /\ display_to_canonical_date(display_fmt, f[1]) # <<>>
            /\ norm_spaces(f[2]) # <<>>
            /\ parse_decimal(Strip(f[4])).ok
            => Len(table') = Len(table) + 1]_vars

----------------------------------------------------------------------------
(* Claims about normalize_date and norm_spaces, checked under SpecCore     *)

\* the date that s spells when it is read with the three directives dirs joined
\* by one of the separators seps, written YYYY/MM/DD; <<>> where it spells none
Reading(s, dirs, seps) ==
    IF \E sep \in seps : strptime(s, dirs, sep).ok
    THEN strftime(strptime(s, dirs, CHOOSE sep \in seps : strptime(s, dirs, sep).ok))
    ELSE <<>>

YearFirst(s) == Reading(s, <<"Y", "m", "d">>, {"/", "-", "."})
DayFirst(s) == Reading(s, <<"d", "m", "Y">>, {"/", "-", "."})
DayFirstShortYear(s) == Reading(s, <<"d", "m", "y">>, {"/", "-", "."})
MonthFirst(s) == Reading(s, <<"m", "d", "Y">>, {"/", "-"})
Compact(s) == IF Len(s) = 8 /\ AllDigits(s) THEN Reading(s, <<"Y", "m", "d">>, {""}) ELSE <<>>

\* C11: normalize_date gives the first reading that is a real date in the order
\* year-first, day-first with a four-digit year, day-first with a two-digit
\* year, month-first, and eight digits YYYYMMDD only when none of these is one;
\* a text that is a date both day-first and month-first is read day-first.
C11_FormatsInFixedOrder ==
    Called("normalize_date") =>
        LET s == norm_spaces(arg.s) IN
        /\ ret = (IF YearFirst(s) # <<>> THEN YearFirst(s)
                  ELSE IF DayFirst(s) # <<>> THEN DayFirst(s)
                  ELSE IF DayFirstShortYear(s) # <<>> THEN DayFirstShortYear(s)
                  ELSE IF MonthFirst(s) # <<>> THEN MonthFirst(s)
                  ELSE Compact(s))
        /\ DayFirst(s) # <<>> /\ MonthFirst(s) # <<>> => ret = DayFirst(s)
        /\ (ret = MonthFirst(s) /\ ret # <<>>) => DayFirst(s) \in {<<>>, ret}

\* normalize_date has read a text that is one date day-first and another
\* month-first
C11_Witness ==
    /\ Called("normalize_date")
    /\ DayFirst(norm_spaces(arg.s)) # <<>>
    /\ MonthFirst(norm_spaces(arg.s)) # <<>>
    /\ DayFirst(norm_spaces(arg.s)) # MonthFirst(norm_spaces(arg.s))
    /\ ret = DayFirst(norm_spaces(arg.s))

\* a text of the form YYYY/MM/DD, all ten characters present, that names a day
\* of the calendar
CanonicalDate(d) ==
    /\ Len(d) = 10
    /\ d[5] = "/" /\ d[8] = "/"
    /\ \A i \in {1, 2, 3, 4, 6, 7, 9, 10} : d[i] \in Digits
    /\ RealDate(IntOf(SubSeq(d, 1, 4)), IntOf(SubSeq(d, 6, 7)), IntOf(SubSeq(d, 9, 10)))

\* C12: whatever the text, normalize_date returns the empty text or a
\* zero-padded YYYY/MM/DD text that names a real day of the calendar.
C12_EmptyOrCanonicalDate ==
    Called("normalize_date") => ret = <<>> \/ CanonicalDate(ret)

\* C13: norm_spaces and normalize_date give their own output back when they are
\* applied to it, the empty output included.
C13_Idempotent ==
    /\ Called("norm_spaces") => norm_spaces(ret) = ret
    /\ Called("normalize_date") => normalize_date(ret) = ret

----------------------------------------------------------------------------
(* Claims about try_parse_line, checked under SpecCore                     *)

\* the fields that the i-th strategy makes of the stripped line: 1 the record
\* of the comma-separated format, 2 the tab split (no field where the line has
\* no tab), 3 the split on runs of two or more white-space characters, 4 the
\* tokens
StrategyFields(raw, i) ==
    CASE i = 1 -> csv_reader(raw, "start", <<>>, <<>>)
      [] i = 2 -> IF Contains(raw, "\t") THEN StrippedNonBlank(SplitOn(raw, "\t", <<>>)) ELSE <<>>
      [] i = 3 -> SplitWideSpace(raw, <<>>)
      [] i = 4 -> SplitSpace(raw, <<>>)

\* the description and the amount among the fields f of the i-th strategy
DescriptionField(f, i) == IF i = 4 THEN JoinSpace(SubSeq(f, 2, Len(f) - 1)) ELSE f[2]
AmountField(f, i) == IF i = 4 THEN f[Len(f)] ELSE f[3]

\* the i-th strategy has three fields or more and a date that parses
HasFieldsAndDate(raw, i) ==
    Len(StrategyFields(raw, i)) >= 3 /\ normalize_date(StrategyFields(raw, i)[1]) # <<>>

\* the i-th strategy succeeds: its amount parses too
Succeeds(raw, i) ==
    /\ HasFieldsAndDate(raw, i)
    /\ money2(parse_decimal(AmountField(StrategyFields(raw, i), i))).ok

\* the Transaction of the i-th strategy
Built(raw, i) ==
    LET f == StrategyFields(raw, i) IN
    Transaction(normalize_date(f[1]), norm_spaces(DescriptionField(f, i)),
                money2(parse_decimal(AmountField(f, i))))

\* C14: try_parse_line returns the Transaction of the first of the four
\* strategies, in the order comma record, tab split, wide-space split, tokens,
\* that succeeds, a strategy whose amount does not parse being passed over as
\* one whose date does not parse; it returns None when none succeeds and for a
\* blank line.
C14_FirstStrategyWins ==
    Called("try_parse_line") =>
        LET raw == Strip(arg.s)
            wins == {i \in 1..4 : Succeeds(raw, i)}
        IN  IF raw = <<>> \/ wins = {} THEN ret.kind = "None"
            ELSE ret = Built(raw, CHOOSE i \in wins : \A j \in wins : i <= j)

\* a text without white space at either end and without two white-space
\* characters in a row
SingleSpaced(s) ==
    /\ s # <<>> => ~IsSpace(s[1]) /\ ~IsSpace(s[Len(s)])
    /\ \A i \in 1..(Len(s) - 1) : ~(IsSpace(s[i]) /\ IsSpace(s[i + 1]))

\* C15: every Transaction that try_parse_line returns has a canonical date of
\* the calendar, a description that is single-spaced and an amount of exactly
\* two fractional digits, the half-up rounding of the amount field of one of
\* the strategies.
C15_TransactionIsNormalized ==
    Called("try_parse_line") /\ ret.kind = "Transaction" =>
        /\ CanonicalDate(ret.date)
        /\ SingleSpaced(ret.description)
        /\ ret.amount.ok /\ ret.amount.scale = 2
        /\ \E i \in 1..4 :
              /\ Succeeds(Strip(arg.s), i)
              /\ ret.amount = money2(parse_decimal(AmountField(StrategyFields(Strip(arg.s), i), i)))

----------------------------------------------------------------------------
(* Claims about is_duplicate, the edits, get_rows and load_session,        *)
(* checked under Spec                                                      *)

\* a letter without its case
Fold(c) == IF c = "a" THEN "A" ELSE IF c = "b" THEN "B" ELSE c

\* two texts are the same once single-spaced, letter by letter whatever the case
SameFolded(a, b) ==
    LET x == norm_spaces(a)
        y == norm_spaces(b)
    IN  Len(x) = Len(y) /\ \A i \in DOMAIN x : Fold(x[i]) = Fold(y[i])

\* the entries that is_duplicate is asked about
CandidateDates ==
    { <<"2", "0", "2", "5", "/", "0", "1", "/", "1", "0">>,
      <<"2", "0", "2", "5", "/", "0", "1", "/", "0", "2">>, <<"x">> }
CandidateTexts == { <<"a">>, <<"A", " ">>, <<"b">>, <<" ", "B">> }
CandidateCategories == { <<>>, <<"a">> }
CandidateAmounts == { Dec(TRUE, 350, 2), Dec(FALSE, 101, 2), Dec(FALSE, 0, 2) }

\* row i is a duplicate of row j: is_duplicate says so of the fields of row i
\* in a table that holds row j alone
DuplicateOf(i, j) ==
    is_duplicate(<<table[j]>>, table[i].date, table[i].desc, table[i].cat, AmountOf(table[i].amt))

FieldNormalized(row, c) ==
    CASE c = "date" -> CanonicalDate(row.date)
      [] c = "desc" -> row.desc = norm_spaces(row.desc)
      [] c = "category" -> row.cat = norm_spaces(row.cat)
      [] c = "amount" -> /\ money2(parse_decimal(row.amt)).ok
                         /\ row.amt = Format2(money2(parse_decimal(row.amt)))

\* the row of identity id is in tbl with the fields of the columns cols normalized
NormalizedIn(tbl, id, cols) ==
    \E k \in DOMAIN tbl : tbl[k].id = id /\ \A c \in cols : FieldNormalized(tbl[k], c)

\* C17: after an edit of a cell in place the field of that cell is stored
\* normalized, and after an edit through the row editor all four fields of the
\* row are.
C17_EditsStoreNormalizedFields ==
    [][ /\ \A r \in DOMAIN table, c \in Columns : \A txt \in CellTexts(c) :
              on_item_changed(r, c, txt) => NormalizedIn(table', table[r].id, {c})
        /\ \A r \in DOMAIN table, f \in EntryForms :
              /\ apply_selected_edit(r, f[1], f[2], f[3], f[4])
              /\ display_to_canonical_date(display_fmt, f[1]) # <<>>
              /\ ParsedAmount(f[4]).ok
              => NormalizedIn(table', table[r].id, Columns) ]_vars

\* C18: get_rows(strict=False) returns one entry for each row of the table, in
\* the order of the table: the date normalized, or left as it is stored where
\* it does not parse, the empty date included; the amount in two decimals, or
\* 0.00 where it does not parse.
C18_LenientKeepsEveryRow ==
    LET out == get_rows_lenient(table) IN
    /\ Len(out) = Len(table)
    /\ \A r \in DOMAIN table :
          /\ out[r].date = (IF normalize_date(table[r].date) # <<>>
                            THEN normalize_date(table[r].date) ELSE table[r].date)
          /\ out[r].amount = AmountOf(Strip(table[r].amt))

\* the checks of the validator that a row fails
FailedChecks(row) ==
    (IF normalize_date(row.date) = <<>> THEN {"invalid date"} ELSE {})
    \cup (IF ~money2(parse_decimal(Strip(row.amt))).ok THEN {"invalid amount"} ELSE {})
    \cup (IF norm_spaces(Strip(row.desc)) = <<>> THEN {"description is empty"} ELSE {})

\* the Transactions of the rows of tbl, from row r on, that fail no check
RECURSIVE ValidRowsFrom(_, _)
ValidRowsFrom(tbl, r) ==
    IF r > Len(tbl) THEN <<>>
    ELSE (IF FailedChecks(tbl[r]) = {}
          THEN <<[date |-> normalize_date(tbl[r].date),
                  description |-> norm_spaces(Strip(tbl[r].desc)),
                  amount |-> money2(parse_decimal(Strip(tbl[r].amt))),
                  category |-> norm_spaces(Strip(tbl[r].cat))]>>
          ELSE <<>>) \o ValidRowsFrom(tbl, r + 1)

\* the messages of a list of errors, as a set
Reported(errors) == {errors[i] : i \in DOMAIN errors}

\* C19: get_rows(strict=True) reports every check that every row fails, and
\* nothing else, and returns the rows that fail none; get_rows(strict=False)
\* reports the dates and the amounts that do not parse and never an empty
\* description.
C19_StrictReportsAllReturnsValid ==
    LET strict == get_rows(table, TRUE)
        lenient == get_rows(table, FALSE)
    IN  /\ Reported(strict.errors) =
              UNION {{[row |-> r, issue |-> i] : i \in FailedChecks(table[r])} : r \in DOMAIN table}
        /\ strict.out = ValidRowsFrom(table, 1)
        /\ Reported(lenient.errors) =
              {e \in Reported(strict.errors) : e.issue # "description is empty"}

\* the row of a session file is malformed, or fails a check of the strict
\* validation
BadFileRow(row) ==
    \/ RowRaises(row)
    \/ normalize_date(row.date) = <<>>
    \/ ~money2(parse_decimal(row.amount)).ok
    \/ norm_spaces(row.description) = <<>>

\* C20: load_session of a file that can be read puts every row of the file in
\* the table, the date normalized where it parses and the amount in two
\* decimals, and its warnings name every row that is malformed or fails the
\* strict validation.
C20_LoadKeepsAndReportsEveryRow ==
    [][ \A file \in SessionFiles :
            file.readable /\ load_session(file) =>
                /\ Len(table') = Len(file.rows)
                /\ \A k \in DOMAIN table' :
                      /\ normalize_date(table'[k].date) \in {<<>>, table'[k].date}
                      /\ FieldNormalized(table'[k], "amount")
                /\ \A r \in DOMAIN file.rows :
                      BadFileRow(file.rows[r]) =>
                          \E e \in Reported(LoadWarnings(file.rows)) : e.row = r ]_vars

\* the date field of row read back from what the date cell shows under fmt
ReadBack(fmt, d) == display_to_canonical_date(fmt, canonical_to_display_date(fmt, d))

\* C21: choosing the other display format changes the date texts of the rows
\* and nothing else of them: each row keeps its id, its canonical date, its
\* place and its running balance; and a canonical date of a row, shown in
\* either format and read back, is the same date.
C21_FormatChangesOnlyRendering ==
    [][ /\ \A fmt \in DisplayFormats :
              ChooseDisplayFormat(fmt) =>
                  /\ Len(table') = Len(table)
                  /\ \A r \in DOMAIN table :
                        /\ table'[r].id = table[r].id
                        /\ table'[r].date = table[r].date
                        /\ table'[r].run = table[r].run
        /\ \A r \in DOMAIN table' : \A fmt \in DisplayFormats :
              CanonicalDate(table'[r].date) => ReadBack(fmt, table'[r].date) = table'[r].date ]_vars

\* the fields of a row that a session keeps
Kept(row) ==
    [id |-> row.id, date |-> row.date, description |-> row.desc, category |-> row.cat,
     amount |-> row.amt]

\* C23: load_session of the file that save_session has just written leaves
\* the ledger as it is: the same rows in the same order, each with its id,
\* canonical date, description, category and amount, and the same next id.
C23_SaveLoadRoundTrip ==
    [][ disk = SessionData /\ load_session(disk) =>
            /\ Len(table') = Len(table)
            /\ \A r \in DOMAIN table : Kept(table'[r]) = Kept(table[r])
            /\ _next_row_id' = _next_row_id ]_vars

\* C24: an undo that follows a mutation (an add, a paste import, a delete, a
\* duplication, a clearing or a row edit that changed the ledger) leaves the
\* ledger as it was before that mutation: the rows, the opening and target
\* texts and the next id.
C24_UndoRevertsLastMutation ==
    [][ trace.kind = "mutation" /\ undo => Ledger' = trace.ledger ]_vars

\* C25: a redo that follows an undo leaves the ledger as it was before that
\* undo.
C25_RedoAfterUndoIsIdentity ==
    [][ trace.kind = "undo" /\ redo => Ledger' = trace.ledger ]_vars

\* the ledger operations after which the dynamic closing is read
LedgerOperation ==
    \/ Add
    \/ ImportPaste
    \/ DuplicateSelected
    \/ DeleteSelected
    \/ ClearTable
    \/ EditCell
    \/ ApplySelectedEdit
    \/ LoadSession
    \/ Undo
    \/ Redo

\* the running balance of the last row, or the quantized opening balance of
\* an empty ledger
LastRunningBalance ==
    IF table = <<>> THEN Format2(money2(AmountOrZero(opening)))
    ELSE table[Len(table)].run

\* C26: after every ledger operation (add, paste import, duplicate, delete,
\* clear, edit, load, undo, redo) the dynamic closing shown is the running
\* balance of the last row, or the quantized opening balance when the ledger
\* is empty.
C26_ClosingIsLastRunningBalance ==
    [][ LedgerOperation => dynamic_closing' = LastRunningBalance' ]_vars

\* a file whose load fails: it cannot be read or parsed, or one of its rows
\* has an id that is no number or is a list of the wrong length
LoadFails(file) == ~file.readable \/ \E i \in DOMAIN file.rows : RowRaises(file.rows[i])

\* C27: a load_session that fails leaves the rows, the opening and target
\* texts and the next-id counter as they were, and _updating false.
C27_FailedLoadLeavesLedger ==
    [][ \A file \in SessionFiles :
            LoadFails(file) /\ load_session(file) => Ledger' = Ledger /\ ~_updating' ]_vars

----------------------------------------------------------------------------
(* Claims about the REST backend, checked under SpecBackend                *)

\* worker w has answered a request to handler
Answered(w, handler) == request[w].handler = handler /\ request[w].at = "done"

\* the checks of the handler reject the payload
Rejected(payload) ==
    ~backend_normalize_date(payload.date).ok \/ ~normalize_amount(payload.amount).ok

\* C22: whatever other requests run beside it, an update_transaction whose
\* payload passes the checks ends in one of two ways: it returns the row of
\* its id with the values it has written, or it answers 404; a payload that
\* does not pass is answered with 400.
C22_UpdateReturnsWrittenRowOrNotFound ==
    \A w \in Workers :
        Answered(w, "update_transaction") =>
            LET r == request[w] IN
            IF Rejected(r.payload) THEN r.status = 400
            ELSE \/ r.status = 404
                 \/ r.status = 200 /\ r.body = BoundRow(r.tx_id, r.payload)

\* the date is no calendar date in one of the four formats, or the amount,
\* its commas and outer blanks apart, is no decimal number
InvalidPayload(payload) ==
    \/ ~backend_normalize_date(payload.date).ok
    \/ ~DecimalOf(Replace(Strip(payload.amount), ",", <<>>)).ok

\* worker w answers its request in this step
Answers(w) == request[w].at # "done" /\ request'[w].at = "done"

\* C28: a create or update whose date or amount is invalid is answered with
\* 400, an update or delete of an id that is not in the table with 404, and
\* the step that answers 400 or 404 leaves the stored transactions as they
\* were.
C28_ErrorsLeaveStoreUnchanged ==
    [][ \A w \in Workers :
            Answers(w) =>
                LET r == request[w]
                    status == request'[w].status
                IN  /\ r.handler \in {"create_transaction", "update_transaction"}
                          /\ InvalidPayload(r.payload)
                       => status = 400
                    /\ \/ r.handler = "delete_transaction"
                       \/ r.handler = "update_transaction" /\ ~InvalidPayload(r.payload)
                       => (r.tx_id \notin DOMAIN transactions => status = 404)
                    /\ status \in {400, 404} => transactions' = transactions ]_vars

====
